---------------------------- MODULE Spec2Model ----------------------------
(***************************************************************************)
(* ChessRL: the Board / Environment abstraction layer.                     *)
(*                                                                         *)
(* Boards (game/chess_board.py, game/xiangqi_pyffish_board.py,             *)
(* game/xiangqi_board.py) wrap a rules oracle; environments                *)
(* (environments/chess_env.py, environments/xiangqi_env.py) wrap a board.  *)
(* The rules oracles (python-chess, pyffish) are external: they are        *)
(* modelled as finite game graphs with the call surface the boards use.    *)
(* Around them: the factory (game/game_factory.py), the random-play loop   *)
(* (main.py), quiz sessions (content/quiz.py) and the match viewer's timer *)
(* (ui_match_viewer.py), each with a specification of its own.             *)
(* Python's None is the empty tuple, Some(v) the one-element tuple; floats  *)
(* 1.0 / 0.0 / -1.0 are the integers 1 / 0 / -1.                           *)
(***************************************************************************)
EXTENDS Integers, Sequences, FiniteSets, TLC

VARIABLES board, oracle, env, last, ghost

vars == <<board, oracle, env, last, ghost>>

(***************************************************************************)
(* Bounds of the model.                                                    *)
(***************************************************************************)
\* most moves applied to one board between two resets
MaxPly == 17
\* max_steps of an environment is drawn from 0..MaxK
MaxK == 4
\* action indices are drawn from -NegActions..MaxAction
MaxAction == 37
NegActions == 2
\* seeds are drawn from 0..MaxSeed
MaxSeed == 0

None == <<>>
Some(v) == <<v>>

WHITE == TRUE
BLACK == FALSE
RED == TRUE

\* list.__contains__
InList(x, list) == \E i \in 1..Len(list) : list[i] = x

(***************************************************************************)
(* Characters of notation texts (UCI moves, FEN board parts).  A text is a *)
(* sequence of one-character strings.                                      *)
(***************************************************************************)
\* the characters of the texts, with ord() of each
Alphabet ==
    [c \in {"a", "b", "c", "d", "e", "f", "g", "h", "i", "j", "k", "l", "m",
            "n", "o", "p", "q", "r", "s", "t", "u", "v", "w", "x", "y", "z",
            "A", "B", "C", "D", "E", "F", "G", "H", "I", "J", "K", "L", "M",
            "N", "O", "P", "Q", "R", "S", "T", "U", "V", "W", "X", "Y", "Z",
            "0", "1", "2", "3", "4", "5", "6", "7", "8", "9", "_", " "} |->
        CASE c = "a" -> 97 [] c = "b" -> 98 [] c = "c" -> 99 [] c = "d" -> 100
          [] c = "e" -> 101 [] c = "f" -> 102 [] c = "g" -> 103 [] c = "h" -> 104
          [] c = "i" -> 105 [] c = "j" -> 106 [] c = "k" -> 107 [] c = "l" -> 108
          [] c = "m" -> 109 [] c = "n" -> 110 [] c = "o" -> 111 [] c = "p" -> 112
          [] c = "q" -> 113 [] c = "r" -> 114 [] c = "s" -> 115 [] c = "t" -> 116
          [] c = "u" -> 117 [] c = "v" -> 118 [] c = "w" -> 119 [] c = "x" -> 120
          [] c = "y" -> 121 [] c = "z" -> 122 [] c = "A" -> 65 [] c = "B" -> 66
          [] c = "C" -> 67 [] c = "D" -> 68 [] c = "E" -> 69 [] c = "F" -> 70
          [] c = "G" -> 71 [] c = "H" -> 72 [] c = "I" -> 73 [] c = "J" -> 74
          [] c = "K" -> 75 [] c = "L" -> 76 [] c = "M" -> 77 [] c = "N" -> 78
          [] c = "O" -> 79 [] c = "P" -> 80 [] c = "Q" -> 81 [] c = "R" -> 82
          [] c = "S" -> 83 [] c = "T" -> 84 [] c = "U" -> 85 [] c = "V" -> 86
          [] c = "W" -> 87 [] c = "X" -> 88 [] c = "Y" -> 89 [] c = "Z" -> 90
          [] c = "0" -> 48 [] c = "1" -> 49 [] c = "2" -> 50 [] c = "3" -> 51
          [] c = "4" -> 52 [] c = "5" -> 53 [] c = "6" -> 54 [] c = "7" -> 55
          [] c = "8" -> 56 [] c = "9" -> 57 [] c = "_" -> 95 [] c = " " -> 32]

ord(c) == Alphabet[c]
chr(n) == CHOOSE c \in DOMAIN Alphabet : Alphabet[c] = n

\* str.isdigit() and int() of one character
isdigit(c) == ord(c) >= ord("0") /\ ord(c) <= ord("9")
int(c) == ord(c) - ord("0")

\* str(n) for a one-digit n
str(n) == chr(ord("0") + n)

\* str.lower() of one character
lower(c) == IF ord(c) >= ord("A") /\ ord(c) <= ord("Z") THEN chr(ord(c) + 32) ELSE c

\* the loop over the characters of one rank: the (file_idx, char) pairs at
\* which a piece is placed
RECURSIVE ScanRank(_, _, _)
ScanRank(rank, i, file_idx) ==
    IF i > Len(rank) THEN {}
    ELSE IF isdigit(rank[i]) THEN ScanRank(rank, i + 1, file_idx + int(rank[i]))
    ELSE {<<file_idx, rank[i]>>} \cup ScanRank(rank, i + 1, file_idx + 1)

(***************************************************************************)
(* python-chess as ChessBoard uses it.  A chess.Move is (from_square,      *)
(* to_square, promotion); squares are 0..63, a1 = 0, h8 = 63.              *)
(***************************************************************************)
Mv(f, t) == [from_square |-> f, to_square |-> t, promotion |-> None]
MvP(f, t, k) == [from_square |-> f, to_square |-> t, promotion |-> Some(k)]

QUEEN == 5
ROOK == 4
BISHOP == 3
KNIGHT == 2

Live(fen, turn) == [fen |-> fen, turn |-> turn, termination |-> "NONE"]
Over(fen, turn, why) == [fen |-> fen, turn |-> turn, termination |-> why]

(***************************************************************************)
(* The chess oracle: the part of python-chess's game tree the model plays  *)
(* in.  A position is a chess.Board: its FEN and, for the repetition       *)
(* rule, the moves that led to it.  ChessGraph holds, per position, the    *)
(* FEN, the side to move and the termination of board.outcome();           *)
(* ChessLegalMoves holds all its legal moves in the order of               *)
(* list(board.legal_moves); ChessPush holds the position board.push(move)  *)
(* gives, for the moves the model plays.  The positions of ChessRoots are  *)
(* those of chess.Board() and chess.Board(fen); position 1 is the starting *)
(* position.  The comment of a position is the line of play from its       *)
(* root.  The lines end in checkmate by Black (5) and by White (10, 53),   *)
(* stalemate (56, 58), insufficient material with and without legal moves  *)
(* (48, 61 to 67, 70, 72, 73, 75, 76), the seventy-five-move rule (78, 81) *)
(* and fivefold repetition (28, 29); 40 holds a pawn that can promote.     *)
(***************************************************************************)
ChessGraph ==
    <<
       \* 1
       Live("rnbqkbnr/pppppppp/8/8/8/8/PPPPPPPP/RNBQKBNR w KQkq - 0 1", WHITE),
       \* 2: f2f3
       Live("rnbqkbnr/pppppppp/8/8/8/5P2/PPPPP1PP/RNBQKBNR b KQkq - 0 1", BLACK),
       \* 3: f2f3 e7e5
       Live("rnbqkbnr/pppp1ppp/8/4p3/8/5P2/PPPPP1PP/RNBQKBNR w KQkq - 0 2", WHITE),
       \* 4: f2f3 e7e5 g2g4
       Live("rnbqkbnr/pppp1ppp/8/4p3/6P1/5P2/PPPPP2P/RNBQKBNR b KQkq - 0 2", BLACK),
       \* 5: f2f3 e7e5 g2g4 d8h4
       Over("rnb1kbnr/pppp1ppp/8/4p3/6Pq/5P2/PPPPP2P/RNBQKBNR w KQkq - 1 3", WHITE, "CHECKMATE"),
       \* 6: e2e4
       Live("rnbqkbnr/pppppppp/8/8/4P3/8/PPPP1PPP/RNBQKBNR b KQkq - 0 1", BLACK),
       \* 7: e2e4 f7f6
       Live("rnbqkbnr/ppppp1pp/5p2/8/4P3/8/PPPP1PPP/RNBQKBNR w KQkq - 0 2", WHITE),
       \* 8: e2e4 f7f6 d2d4
       Live("rnbqkbnr/ppppp1pp/5p2/8/3PP3/8/PPP2PPP/RNBQKBNR b KQkq - 0 2", BLACK),
       \* 9: e2e4 f7f6 d2d4 g7g5
       Live("rnbqkbnr/ppppp2p/5p2/6p1/3PP3/8/PPP2PPP/RNBQKBNR w KQkq - 0 3", WHITE),
       \* 10: e2e4 f7f6 d2d4 g7g5 d1h5
       Over("rnbqkbnr/ppppp2p/5p2/6pQ/3PP3/8/PPP2PPP/RNB1KBNR b KQkq - 1 3", BLACK, "CHECKMATE"),
       \* 11: e2e4 e7e5
       Live("rnbqkbnr/pppp1ppp/8/4p3/4P3/8/PPPP1PPP/RNBQKBNR w KQkq - 0 2", WHITE),
       \* 12: e2e4 e7e5 g1f3
       Live("rnbqkbnr/pppp1ppp/8/4p3/4P3/5N2/PPPP1PPP/RNBQKB1R b KQkq - 1 2", BLACK),
       \* 13: g1f3
       Live("rnbqkbnr/pppppppp/8/8/8/5N2/PPPPPPPP/RNBQKB1R b KQkq - 1 1", BLACK),
       \* 14: g1f3 g8f6
       Live("rnbqkb1r/pppppppp/5n2/8/8/5N2/PPPPPPPP/RNBQKB1R w KQkq - 2 2", WHITE),
       \* 15: g1f3 g8f6 f3g1
       Live("rnbqkb1r/pppppppp/5n2/8/8/8/PPPPPPPP/RNBQKBNR b KQkq - 3 2", BLACK),
       \* 16: g1f3 g8f6 f3g1 f6g8
       Live("rnbqkbnr/pppppppp/8/8/8/8/PPPPPPPP/RNBQKBNR w KQkq - 4 3", WHITE),
       \* 17: g1f3 g8f6 f3g1 f6g8 g1f3
       Live("rnbqkbnr/pppppppp/8/8/8/5N2/PPPPPPPP/RNBQKB1R b KQkq - 5 3", BLACK),
       \* 18: g1f3 g8f6 f3g1 f6g8 g1f3 g8f6
       Live("rnbqkb1r/pppppppp/5n2/8/8/5N2/PPPPPPPP/RNBQKB1R w KQkq - 6 4", WHITE),
       \* 19: g1f3 g8f6 f3g1 f6g8 g1f3 g8f6 f3g1
       Live("rnbqkb1r/pppppppp/5n2/8/8/8/PPPPPPPP/RNBQKBNR b KQkq - 7 4", BLACK),
       \* 20: g1f3 g8f6 f3g1 f6g8 g1f3 g8f6 f3g1 f6g8
       Live("rnbqkbnr/pppppppp/8/8/8/8/PPPPPPPP/RNBQKBNR w KQkq - 8 5", WHITE),
       \* 21: g1f3 g8f6 f3g1 f6g8 g1f3 g8f6 f3g1 f6g8 g1f3
       Live("rnbqkbnr/pppppppp/8/8/8/5N2/PPPPPPPP/RNBQKB1R b KQkq - 9 5", BLACK),
       \* 22: g1f3 g8f6 f3g1 f6g8 g1f3 g8f6 f3g1 f6g8 g1f3 g8f6
       Live("rnbqkb1r/pppppppp/5n2/8/8/5N2/PPPPPPPP/RNBQKB1R w KQkq - 10 6", WHITE),
       \* 23: g1f3 g8f6 f3g1 f6g8 g1f3 g8f6 f3g1 f6g8 g1f3 g8f6 f3g1
       Live("rnbqkb1r/pppppppp/5n2/8/8/8/PPPPPPPP/RNBQKBNR b KQkq - 11 6", BLACK),
       \* 24: g1f3 g8f6 f3g1 f6g8 g1f3 g8f6 f3g1 f6g8 g1f3 g8f6 f3g1 f6g8
       Live("rnbqkbnr/pppppppp/8/8/8/8/PPPPPPPP/RNBQKBNR w KQkq - 12 7", WHITE),
       \* 25: g1f3 g8f6 f3g1 f6g8 g1f3 g8f6 f3g1 f6g8 g1f3 g8f6 f3g1 f6g8 g1f3
       Live("rnbqkbnr/pppppppp/8/8/8/5N2/PPPPPPPP/RNBQKB1R b KQkq - 13 7", BLACK),
       \* 26: g1f3 g8f6 f3g1 f6g8 g1f3 g8f6 f3g1 f6g8 g1f3 g8f6 f3g1 f6g8 g1f3 g8f6
       Live("rnbqkb1r/pppppppp/5n2/8/8/5N2/PPPPPPPP/RNBQKB1R w KQkq - 14 8", WHITE),
       \* 27: g1f3 g8f6 f3g1 f6g8 g1f3 g8f6 f3g1 f6g8 g1f3 g8f6 f3g1 f6g8 g1f3 g8f6 f3g1
       Live("rnbqkb1r/pppppppp/5n2/8/8/8/PPPPPPPP/RNBQKBNR b KQkq - 15 8", BLACK),
       \* 28: g1f3 g8f6 f3g1 f6g8 g1f3 g8f6 f3g1 f6g8 g1f3 g8f6 f3g1 f6g8 g1f3 g8f6 f3g1 f6g8
       Over("rnbqkbnr/pppppppp/8/8/8/8/PPPPPPPP/RNBQKBNR w KQkq - 16 9", WHITE, "FIVEFOLD_REPETITION"),
       \* 29: g1f3 g8f6 f3g1 f6g8 g1f3 g8f6 f3g1 f6g8 g1f3 g8f6 f3g1 f6g8 g1f3 g8f6 f3g1 f6g8 g1f3
       Over("rnbqkbnr/pppppppp/8/8/8/5N2/PPPPPPPP/RNBQKB1R b KQkq - 17 9", BLACK, "FIVEFOLD_REPETITION"),
       \* 30: g1f3 g8f6 f3g1 f6g8 g1f3 g8f6 f3g1 f6g8 g1f3 g8f6 f3g1 f6g8 g1f3 g8f6 f3g1 f6g8 e2e4
       Live("rnbqkbnr/pppppppp/8/8/4P3/8/PPPP1PPP/RNBQKBNR b KQkq - 0 9", BLACK),
       \* 31: g1h3
       Live("rnbqkbnr/pppppppp/8/8/8/7N/PPPPPPPP/RNBQKB1R b KQkq - 1 1", BLACK),
       \* 32: a2a4
       Live("rnbqkbnr/pppppppp/8/8/P7/8/1PPPPPPP/RNBQKBNR b KQkq - 0 1", BLACK),
       \* 33: h2h4
       Live("rnbqkbnr/pppppppp/8/8/7P/8/PPPPPPP1/RNBQKBNR b KQkq - 0 1", BLACK),
       \* 34: h2h4 g7g5
       Live("rnbqkbnr/pppppp1p/8/6p1/7P/8/PPPPPPP1/RNBQKBNR w KQkq - 0 2", WHITE),
       \* 35: h2h4 g7g5 h4g5
       Live("rnbqkbnr/pppppp1p/8/6P1/8/8/PPPPPPP1/RNBQKBNR b KQkq - 0 2", BLACK),
       \* 36: h2h4 g7g5 h4g5 h7h6
       Live("rnbqkbnr/pppppp2/7p/6P1/8/8/PPPPPPP1/RNBQKBNR w KQkq - 0 3", WHITE),
       \* 37: h2h4 g7g5 h4g5 h7h6 g5h6
       Live("rnbqkbnr/pppppp2/7P/8/8/8/PPPPPPP1/RNBQKBNR b KQkq - 0 3", BLACK),
       \* 38: h2h4 g7g5 h4g5 h7h6 g5h6 a7a6
       Live("rnbqkbnr/1ppppp2/p6P/8/8/8/PPPPPPP1/RNBQKBNR w KQkq - 0 4", WHITE),
       \* 39: h2h4 g7g5 h4g5 h7h6 g5h6 a7a6 h6h7
       Live("rnbqkbnr/1ppppp1P/p7/8/8/8/PPPPPPP1/RNBQKBNR b KQkq - 0 4", BLACK),
       \* 40: h2h4 g7g5 h4g5 h7h6 g5h6 a7a6 h6h7 a6a5
       Live("rnbqkbnr/1ppppp1P/8/p7/8/8/PPPPPPP1/RNBQKBNR w KQkq - 0 5", WHITE),
       \* 41: h2h4 g7g5 h4g5 h7h6 g5h6 a7a6 h6h7 a6a5 h7g8q
       Live("rnbqkbQr/1ppppp2/8/p7/8/8/PPPPPPP1/RNBQKBNR b KQkq - 0 5", BLACK),
       \* 42: h2h4 g7g5 h4g5 h7h6 g5h6 a7a6 h6h7 a6a5 h7g8q h8g8
       Live("rnbqkbr1/1ppppp2/8/p7/8/8/PPPPPPP1/RNBQKBNR w KQq - 0 6", WHITE),
       \* 43: h2h4 g7g5 h4g5 h7h6 g5h6 a7a6 h6h7 a6a5 h7g8r
       Live("rnbqkbRr/1ppppp2/8/p7/8/8/PPPPPPP1/RNBQKBNR b KQkq - 0 5", BLACK),
       \* 44: h2h4 g7g5 h4g5 h7h6 g5h6 a7a6 h6h7 a6a5 h7g8b
       Live("rnbqkbBr/1ppppp2/8/p7/8/8/PPPPPPP1/RNBQKBNR b KQkq - 0 5", BLACK),
       \* 45: h2h4 g7g5 h4g5 h7h6 g5h6 a7a6 h6h7 a6a5 h7g8n
       Live("rnbqkbNr/1ppppp2/8/p7/8/8/PPPPPPP1/RNBQKBNR b KQkq - 0 5", BLACK),
       \* 46
       Live("rnbqkbnr/pp1ppppp/8/2p5/4P3/5N2/PPPP1PPP/RNBQKB1R b KQkq - 1 2", BLACK),
       \* 47: d7d6
       Live("rnbqkbnr/pp2pppp/3p4/2p5/4P3/5N2/PPPP1PPP/RNBQKB1R w KQkq - 0 3", WHITE),
       \* 48
       Over("8/8/8/8/8/8/8/8 w - - 0 1", WHITE, "INSUFFICIENT_MATERIAL"),
       \* 49
       Live("rnbqkbnr/ppp1pppp/8/3p4/4P3/8/PPPP1PPP/RNBQKBNR w KQkq - 0 2", WHITE),
       \* 50: e4d5
       Live("rnbqkbnr/ppp1pppp/8/3P4/8/8/PPPP1PPP/RNBQKBNR b KQkq - 0 2", BLACK),
       \* 51: e4d5 d8d5
       Live("rnb1kbnr/ppp1pppp/8/3q4/8/8/PPPP1PPP/RNBQKBNR w KQkq - 0 3", WHITE),
       \* 52
       Live("rnbqkbnr/pppp1ppp/8/4p3/2B1P3/5Q2/PPPP1PPP/RNB1K1NR w KQkq - 3 3", WHITE),
       \* 53: f3f7
       Over("rnbqkbnr/pppp1Qpp/8/4p3/2B1P3/8/PPPP1PPP/RNB1K1NR b KQkq - 0 3", BLACK, "CHECKMATE"),
       \* 54: a2a3
       Live("rnbqkbnr/pppp1ppp/8/4p3/2B1P3/P4Q2/1PPP1PPP/RNB1K1NR b KQkq - 0 3", BLACK),
       \* 55: a2a3 a7a6
       Live("rnbqkbnr/1ppp1ppp/p7/4p3/2B1P3/P4Q2/1PPP1PPP/RNB1K1NR w KQkq - 0 4", WHITE),
       \* 56
       Over("k7/8/1Q6/8/8/8/8/7K b - - 0 1", BLACK, "STALEMATE"),
       \* 57
       Live("k7/8/8/1Q6/8/8/8/7K w - - 0 1", WHITE),
       \* 58: b5b6
       Over("k7/8/1Q6/8/8/8/8/7K b - - 1 1", BLACK, "STALEMATE"),
       \* 59: h1g1
       Live("k7/8/8/1Q6/8/8/8/6K1 b - - 1 1", BLACK),
       \* 60: h1g1 a8a7
       Live("8/k7/8/1Q6/8/8/8/6K1 w - - 2 2", WHITE),
       \* 61
       Over("8/8/8/4k3/8/8/8/4K3 w - - 0 1", WHITE, "INSUFFICIENT_MATERIAL"),
       \* 62: e1e2
       Over("8/8/8/4k3/8/8/4K3/8 b - - 1 1", BLACK, "INSUFFICIENT_MATERIAL"),
       \* 63: e1e2 e5e4
       Over("8/8/8/8/4k3/8/4K3/8 w - - 2 2", WHITE, "INSUFFICIENT_MATERIAL"),
       \* 64: e1e2 e5e4 e2e1
       Over("8/8/8/8/4k3/8/8/4K3 b - - 3 2", BLACK, "INSUFFICIENT_MATERIAL"),
       \* 65: e1e2 e5e4 e2e1 e4e5
       Over("8/8/8/4k3/8/8/8/4K3 w - - 4 3", WHITE, "INSUFFICIENT_MATERIAL"),
       \* 66: e1e2 e5e4 e2e1 e4e5 e1e2
       Over("8/8/8/4k3/8/8/4K3/8 b - - 5 3", BLACK, "INSUFFICIENT_MATERIAL"),
       \* 67: e1d1
       Over("8/8/8/4k3/8/8/8/3K4 b - - 1 1", BLACK, "INSUFFICIENT_MATERIAL"),
       \* 68
       Live("8/Pk6/8/8/8/8/8/4K3 w - - 0 1", WHITE),
       \* 69: a7a8q
       Live("Q7/1k6/8/8/8/8/8/4K3 b - - 0 1", BLACK),
       \* 70: a7a8q b7a8
       Over("k7/8/8/8/8/8/8/4K3 w - - 0 2", WHITE, "INSUFFICIENT_MATERIAL"),
       \* 71: a7a8r
       Live("R7/1k6/8/8/8/8/8/4K3 b - - 0 1", BLACK),
       \* 72: a7a8b
       Over("B7/1k6/8/8/8/8/8/4K3 b - - 0 1", BLACK, "INSUFFICIENT_MATERIAL"),
       \* 73: a7a8n
       Over("N7/1k6/8/8/8/8/8/4K3 b - - 0 1", BLACK, "INSUFFICIENT_MATERIAL"),
       \* 74: e1e2
       Live("8/Pk6/8/8/8/8/4K3/8 b - - 1 1", BLACK),
       \* 75: e1e2 b7a7
       Over("8/k7/8/8/8/8/4K3/8 w - - 0 2", WHITE, "INSUFFICIENT_MATERIAL"),
       \* 76: e1e2 b7a7 e2e1
       Over("8/k7/8/8/8/8/8/4K3 b - - 1 2", BLACK, "INSUFFICIENT_MATERIAL"),
       \* 77
       Live("4k3/4p3/8/8/8/8/8/3K4 w - - 149 80", WHITE),
       \* 78: d1e1
       Over("4k3/4p3/8/8/8/8/8/4K3 b - - 150 80", BLACK, "SEVENTYFIVE_MOVES"),
       \* 79: d1e1 e7e5
       Live("4k3/8/8/4p3/8/8/8/4K3 w - - 0 81", WHITE),
       \* 80: d1e1 e7e5 e1e2
       Live("4k3/8/8/4p3/8/8/4K3/8 b - - 1 81", BLACK),
       \* 81: d1e1 e8d8
       Over("3k4/4p3/8/8/8/8/8/4K3 w - - 151 81", WHITE, "SEVENTYFIVE_MOVES"),
       \* 82: g1h3 g8h6
       Live("rnbqkb1r/pppppppp/7n/8/8/7N/PPPPPPPP/RNBQKB1R w KQkq - 2 2", WHITE),
       \* 83: g1h3 g8h6 h3g5
       Live("rnbqkb1r/pppppppp/7n/6N1/8/8/PPPPPPPP/RNBQKB1R b KQkq - 3 2", BLACK) >>

ChessPositions == 1..Len(ChessGraph)

\* chess.Board() / chess.Board.reset(): the standard starting position
CHESS_START == 1

\* the positions a ChessBoard is constructed on: chess.Board() and
\* chess.Board(fen)
ChessRoots == {1, 46, 48, 49, 52, 56, 57, 61, 68, 77}

\* chess.Board.turn
chess_turn(p) == ChessGraph[p].turn

\* the legal moves of each position, a move written
\* from_square + 64 * to_square + 4096 * promotion, promotion 0 for none
ChessLegalMoves ==
    <<
       \* 1:
       \*   g1h3 g1f3 b1c3 b1a3 h2h3 g2g3 f2f3 e2e3 d2d3 c2c3
       \*   b2b3 a2a3 h2h4 g2g4 f2f4 e2e4 d2d4 c2c4 b2b4 a2a4
       <<1478, 1350, 1153, 1025, 1487, 1422, 1357, 1292, 1227, 1162, 1097,
         1032, 1999, 1934, 1869, 1804, 1739, 1674, 1609, 1544>>,
       \* 2:
       \*   g8h6 g8f6 b8c6 b8a6 h7h6 g7g6 f7f6 e7e6 d7d6 c7c6
       \*   b7b6 a7a6 h7h5 g7g5 f7f5 e7e5 d7d5 c7c5 b7b5 a7a5
       <<3070, 2942, 2745, 2617, 3063, 2998, 2933, 2868, 2803, 2738, 2673,
         2608, 2551, 2486, 2421, 2356, 2291, 2226, 2161, 2096>>,
       \* 3:
       \*   g1h3 e1f2 b1c3 b1a3 f3f4 h2h3 g2g3 e2e3 d2d3 c2c3
       \*   b2b3 a2a3 h2h4 g2g4 e2e4 d2d4 c2c4 b2b4 a2a4
       <<1478, 836, 1153, 1025, 1877, 1487, 1422, 1292, 1227, 1162, 1097,
         1032, 1999, 1934, 1804, 1739, 1674, 1609, 1544>>,
       \* 4:
       \*   g8e7 g8h6 g8f6 f8e7 f8d6 f8c5 f8b4 f8a3 e8e7 d8e7
       \*   d8f6 d8g5 d8h4 b8c6 b8a6 h7h6 g7g6 f7f6 d7d6 c7c6
       \*   b7b6 a7a6 e5e4 h7h5 g7g5 f7f5 d7d5 c7c5 b7b5 a7a5
       <<3390, 3070, 2942, 3389, 2813, 2237, 1661, 1085, 3388, 3387, 2939,
         2491, 2043, 2745, 2617, 3063, 2998, 2933, 2803, 2738, 2673, 2608,
         1828, 2551, 2486, 2421, 2291, 2226, 2161, 2096>>,
       \* 5
       <<>>,
       \* 6:
       \*   g8h6 g8f6 b8c6 b8a6 h7h6 g7g6 f7f6 e7e6 d7d6 c7c6
       \*   b7b6 a7a6 h7h5 g7g5 f7f5 e7e5 d7d5 c7c5 b7b5 a7a5
       <<3070, 2942, 2745, 2617, 3063, 2998, 2933, 2868, 2803, 2738, 2673,
         2608, 2551, 2486, 2421, 2356, 2291, 2226, 2161, 2096>>,
       \* 7:
       \*   g1h3 g1f3 g1e2 f1a6 f1b5 f1c4 f1d3 f1e2 e1e2 d1h5
       \*   d1g4 d1f3 d1e2 b1c3 b1a3 e4e5 h2h3 g2g3 f2f3 d2d3
       \*   c2c3 b2b3 a2a3 h2h4 g2g4 f2f4 d2d4 c2c4 b2b4 a2a4
       <<1478, 1350, 774, 2565, 2117, 1669, 1221, 773, 772, 2499, 1923,
         1347, 771, 1153, 1025, 2332, 1487, 1422, 1357, 1227, 1162, 1097,
         1032, 1999, 1934, 1869, 1739, 1674, 1609, 1544>>,
       \* 8:
       \*   g8h6 e8f7 b8c6 b8a6 h7h6 g7g6 e7e6 d7d6 c7c6 b7b6
       \*   a7a6 f6f5 h7h5 g7g5 e7e5 d7d5 c7c5 b7b5 a7a5
       <<3070, 3452, 2745, 2617, 3063, 2998, 2868, 2803, 2738, 2673, 2608,
         2413, 2551, 2486, 2356, 2291, 2226, 2161, 2096>>,
       \* 9:
       \*   g1h3 g1f3 g1e2 f1a6 f1b5 f1c4 f1d3 f1e2 e1e2 e1d2
       \*   d1h5 d1g4 d1f3 d1d3 d1e2 d1d2 c1g5 c1f4 c1e3 c1d2
       \*   b1c3 b1a3 b1d2 e4e5 d4d5 h2h3 g2g3 f2f3 c2c3 b2b3
       \*   a2a3 h2h4 g2g4 f2f4 c2c4 b2b4 a2a4
       <<1478, 1350, 774, 2565, 2117, 1669, 1221, 773, 772, 708, 2499, 1923,
         1347, 1219, 771, 707, 2434, 1858, 1282, 706, 1153, 1025, 705, 2332,
         2267, 1487, 1422, 1357, 1162, 1097, 1032, 1999, 1934, 1869, 1674,
         1609, 1544>>,
       \* 10
       <<>>,
       \* 11:
       \*   g1h3 g1f3 g1e2 f1a6 f1b5 f1c4 f1d3 f1e2 e1e2 d1h5
       \*   d1g4 d1f3 d1e2 b1c3 b1a3 h2h3 g2g3 f2f3 d2d3 c2c3
       \*   b2b3 a2a3 h2h4 g2g4 f2f4 d2d4 c2c4 b2b4 a2a4
       <<1478, 1350, 774, 2565, 2117, 1669, 1221, 773, 772, 2499, 1923,
         1347, 771, 1153, 1025, 1487, 1422, 1357, 1227, 1162, 1097, 1032,
         1999, 1934, 1869, 1739, 1674, 1609, 1544>>,
       \* 12:
       \*   g8e7 g8h6 g8f6 f8e7 f8d6 f8c5 f8b4 f8a3 e8e7 d8e7
       \*   d8f6 d8g5 d8h4 b8c6 b8a6 h7h6 g7g6 f7f6 d7d6 c7c6
       \*   b7b6 a7a6 h7h5 g7g5 f7f5 d7d5 c7c5 b7b5 a7a5
       <<3390, 3070, 2942, 3389, 2813, 2237, 1661, 1085, 3388, 3387, 2939,
         2491, 2043, 2745, 2617, 3063, 2998, 2933, 2803, 2738, 2673, 2608,
         2551, 2486, 2421, 2291, 2226, 2161, 2096>>,
       \* 13:
       \*   g8h6 g8f6 b8c6 b8a6 h7h6 g7g6 f7f6 e7e6 d7d6 c7c6
       \*   b7b6 a7a6 h7h5 g7g5 f7f5 e7e5 d7d5 c7c5 b7b5 a7a5
       <<3070, 2942, 2745, 2617, 3063, 2998, 2933, 2868, 2803, 2738, 2673,
         2608, 2551, 2486, 2421, 2356, 2291, 2226, 2161, 2096>>,
       \* 14:
       \*   f3g5 f3e5 f3h4 f3d4 f3g1 h1g1 b1c3 b1a3 h2h3 g2g3
       \*   e2e3 d2d3 c2c3 b2b3 a2a3 h2h4 g2g4 e2e4 d2d4 c2c4
       \*   b2b4 a2a4
       <<2453, 2325, 2005, 1749, 405, 391, 1153, 1025, 1487, 1422, 1292,
         1227, 1162, 1097, 1032, 1999, 1934, 1804, 1739, 1674, 1609, 1544>>,
       \* 15:
       \*   h8g8 b8c6 b8a6 f6g8 f6h5 f6d5 f6g4 f6e4 h7h6 g7g6
       \*   e7e6 d7d6 c7c6 b7b6 a7a6 h7h5 g7g5 e7e5 d7d5 c7c5
       \*   b7b5 a7a5
       <<4031, 2745, 2617, 4013, 2541, 2285, 1965, 1837, 3063, 2998, 2868,
         2803, 2738, 2673, 2608, 2551, 2486, 2356, 2291, 2226, 2161, 2096>>,
       \* 16:
       \*   g1h3 g1f3 b1c3 b1a3 h2h3 g2g3 f2f3 e2e3 d2d3 c2c3
       \*   b2b3 a2a3 h2h4 g2g4 f2f4 e2e4 d2d4 c2c4 b2b4 a2a4
       <<1478, 1350, 1153, 1025, 1487, 1422, 1357, 1292, 1227, 1162, 1097,
         1032, 1999, 1934, 1869, 1804, 1739, 1674, 1609, 1544>>,
       \* 17:
       \*   g8h6 g8f6 b8c6 b8a6 h7h6 g7g6 f7f6 e7e6 d7d6 c7c6
       \*   b7b6 a7a6 h7h5 g7g5 f7f5 e7e5 d7d5 c7c5 b7b5 a7a5
       <<3070, 2942, 2745, 2617, 3063, 2998, 2933, 2868, 2803, 2738, 2673,
         2608, 2551, 2486, 2421, 2356, 2291, 2226, 2161, 2096>>,
       \* 18:
       \*   f3g5 f3e5 f3h4 f3d4 f3g1 h1g1 b1c3 b1a3 h2h3 g2g3
       \*   e2e3 d2d3 c2c3 b2b3 a2a3 h2h4 g2g4 e2e4 d2d4 c2c4
       \*   b2b4 a2a4
       <<2453, 2325, 2005, 1749, 405, 391, 1153, 1025, 1487, 1422, 1292,
         1227, 1162, 1097, 1032, 1999, 1934, 1804, 1739, 1674, 1609, 1544>>,
       \* 19:
       \*   h8g8 b8c6 b8a6 f6g8 f6h5 f6d5 f6g4 f6e4 h7h6 g7g6
       \*   e7e6 d7d6 c7c6 b7b6 a7a6 h7h5 g7g5 e7e5 d7d5 c7c5
       \*   b7b5 a7a5
       <<4031, 2745, 2617, 4013, 2541, 2285, 1965, 1837, 3063, 2998, 2868,
         2803, 2738, 2673, 2608, 2551, 2486, 2356, 2291, 2226, 2161, 2096>>,
       \* 20:
       \*   g1h3 g1f3 b1c3 b1a3 h2h3 g2g3 f2f3 e2e3 d2d3 c2c3
       \*   b2b3 a2a3 h2h4 g2g4 f2f4 e2e4 d2d4 c2c4 b2b4 a2a4
       <<1478, 1350, 1153, 1025, 1487, 1422, 1357, 1292, 1227, 1162, 1097,
         1032, 1999, 1934, 1869, 1804, 1739, 1674, 1609, 1544>>,
       \* 21:
       \*   g8h6 g8f6 b8c6 b8a6 h7h6 g7g6 f7f6 e7e6 d7d6 c7c6
       \*   b7b6 a7a6 h7h5 g7g5 f7f5 e7e5 d7d5 c7c5 b7b5 a7a5
       <<3070, 2942, 2745, 2617, 3063, 2998, 2933, 2868, 2803, 2738, 2673,
         2608, 2551, 2486, 2421, 2356, 2291, 2226, 2161, 2096>>,
       \* 22:
       \*   f3g5 f3e5 f3h4 f3d4 f3g1 h1g1 b1c3 b1a3 h2h3 g2g3
       \*   e2e3 d2d3 c2c3 b2b3 a2a3 h2h4 g2g4 e2e4 d2d4 c2c4
       \*   b2b4 a2a4
       <<2453, 2325, 2005, 1749, 405, 391, 1153, 1025, 1487, 1422, 1292,
         1227, 1162, 1097, 1032, 1999, 1934, 1804, 1739, 1674, 1609, 1544>>,
       \* 23:
       \*   h8g8 b8c6 b8a6 f6g8 f6h5 f6d5 f6g4 f6e4 h7h6 g7g6
       \*   e7e6 d7d6 c7c6 b7b6 a7a6 h7h5 g7g5 e7e5 d7d5 c7c5
       \*   b7b5 a7a5
       <<4031, 2745, 2617, 4013, 2541, 2285, 1965, 1837, 3063, 2998, 2868,
         2803, 2738, 2673, 2608, 2551, 2486, 2356, 2291, 2226, 2161, 2096>>,
       \* 24:
       \*   g1h3 g1f3 b1c3 b1a3 h2h3 g2g3 f2f3 e2e3 d2d3 c2c3
       \*   b2b3 a2a3 h2h4 g2g4 f2f4 e2e4 d2d4 c2c4 b2b4 a2a4
       <<1478, 1350, 1153, 1025, 1487, 1422, 1357, 1292, 1227, 1162, 1097,
         1032, 1999, 1934, 1869, 1804, 1739, 1674, 1609, 1544>>,
       \* 25:
       \*   g8h6 g8f6 b8c6 b8a6 h7h6 g7g6 f7f6 e7e6 d7d6 c7c6
       \*   b7b6 a7a6 h7h5 g7g5 f7f5 e7e5 d7d5 c7c5 b7b5 a7a5
       <<3070, 2942, 2745, 2617, 3063, 2998, 2933, 2868, 2803, 2738, 2673,
         2608, 2551, 2486, 2421, 2356, 2291, 2226, 2161, 2096>>,
       \* 26:
       \*   f3g5 f3e5 f3h4 f3d4 f3g1 h1g1 b1c3 b1a3 h2h3 g2g3
       \*   e2e3 d2d3 c2c3 b2b3 a2a3 h2h4 g2g4 e2e4 d2d4 c2c4
       \*   b2b4 a2a4
       <<2453, 2325, 2005, 1749, 405, 391, 1153, 1025, 1487, 1422, 1292,
         1227, 1162, 1097, 1032, 1999, 1934, 1804, 1739, 1674, 1609, 1544>>,
       \* 27:
       \*   h8g8 b8c6 b8a6 f6g8 f6h5 f6d5 f6g4 f6e4 h7h6 g7g6
       \*   e7e6 d7d6 c7c6 b7b6 a7a6 h7h5 g7g5 e7e5 d7d5 c7c5
       \*   b7b5 a7a5
       <<4031, 2745, 2617, 4013, 2541, 2285, 1965, 1837, 3063, 2998, 2868,
         2803, 2738, 2673, 2608, 2551, 2486, 2356, 2291, 2226, 2161, 2096>>,
       \* 28:
       \*   g1h3 g1f3 b1c3 b1a3 h2h3 g2g3 f2f3 e2e3 d2d3 c2c3
       \*   b2b3 a2a3 h2h4 g2g4 f2f4 e2e4 d2d4 c2c4 b2b4 a2a4
       <<1478, 1350, 1153, 1025, 1487, 1422, 1357, 1292, 1227, 1162, 1097,
         1032, 1999, 1934, 1869, 1804, 1739, 1674, 1609, 1544>>,
       \* 29:
       \*   g8h6 g8f6 b8c6 b8a6 h7h6 g7g6 f7f6 e7e6 d7d6 c7c6
       \*   b7b6 a7a6 h7h5 g7g5 f7f5 e7e5 d7d5 c7c5 b7b5 a7a5
       <<3070, 2942, 2745, 2617, 3063, 2998, 2933, 2868, 2803, 2738, 2673,
         2608, 2551, 2486, 2421, 2356, 2291, 2226, 2161, 2096>>,
       \* 30:
       \*   g8h6 g8f6 b8c6 b8a6 h7h6 g7g6 f7f6 e7e6 d7d6 c7c6
       \*   b7b6 a7a6 h7h5 g7g5 f7f5 e7e5 d7d5 c7c5 b7b5 a7a5
       <<3070, 2942, 2745, 2617, 3063, 2998, 2933, 2868, 2803, 2738, 2673,
         2608, 2551, 2486, 2421, 2356, 2291, 2226, 2161, 2096>>,
       \* 31:
       \*   g8h6 g8f6 b8c6 b8a6 h7h6 g7g6 f7f6 e7e6 d7d6 c7c6
       \*   b7b6 a7a6 h7h5 g7g5 f7f5 e7e5 d7d5 c7c5 b7b5 a7a5
       <<3070, 2942, 2745, 2617, 3063, 2998, 2933, 2868, 2803, 2738, 2673,
         2608, 2551, 2486, 2421, 2356, 2291, 2226, 2161, 2096>>,
       \* 32:
       \*   g8h6 g8f6 b8c6 b8a6 h7h6 g7g6 f7f6 e7e6 d7d6 c7c6
       \*   b7b6 a7a6 h7h5 g7g5 f7f5 e7e5 d7d5 c7c5 b7b5 a7a5
       <<3070, 2942, 2745, 2617, 3063, 2998, 2933, 2868, 2803, 2738, 2673,
         2608, 2551, 2486, 2421, 2356, 2291, 2226, 2161, 2096>>,
       \* 33:
       \*   g8h6 g8f6 b8c6 b8a6 h7h6 g7g6 f7f6 e7e6 d7d6 c7c6
       \*   b7b6 a7a6 h7h5 g7g5 f7f5 e7e5 d7d5 c7c5 b7b5 a7a5
       <<3070, 2942, 2745, 2617, 3063, 2998, 2933, 2868, 2803, 2738, 2673,
         2608, 2551, 2486, 2421, 2356, 2291, 2226, 2161, 2096>>,
       \* 34:
       \*   h1h3 h1h2 g1h3 g1f3 b1c3 b1a3 h4g5 h4h5 g2g3 f2f3
       \*   e2e3 d2d3 c2c3 b2b3 a2a3 g2g4 f2f4 e2e4 d2d4 c2c4
       \*   b2b4 a2a4
       <<1479, 967, 1478, 1350, 1153, 1025, 2463, 2527, 1422, 1357, 1292,
         1227, 1162, 1097, 1032, 1934, 1869, 1804, 1739, 1674, 1609, 1544>>,
       \* 35:
       \*   g8h6 g8f6 f8g7 f8h6 b8c6 b8a6 h7h6 f7f6 e7e6 d7d6
       \*   c7c6 b7b6 a7a6 h7h5 f7f5 e7e5 d7d5 c7c5 b7b5 a7a5
       <<3070, 2942, 3517, 3069, 2745, 2617, 3063, 2933, 2868, 2803, 2738,
         2673, 2608, 2551, 2421, 2356, 2291, 2226, 2161, 2096>>,
       \* 36:
       \*   h1h6 h1h5 h1h4 h1h3 h1h2 g1h3 g1f3 b1c3 b1a3 g5h6
       \*   g5g6 g2g3 f2f3 e2e3 d2d3 c2c3 b2b3 a2a3 g2g4 f2f4
       \*   e2e4 d2d4 c2c4 b2b4 a2a4
       <<3015, 2503, 1991, 1479, 967, 1478, 1350, 1153, 1025, 3046, 2982,
         1422, 1357, 1292, 1227, 1162, 1097, 1032, 1934, 1869, 1804, 1739,
         1674, 1609, 1544>>,
       \* 37:
       \*   h8h7 h8h6 g8h6 g8f6 f8g7 f8h6 b8c6 b8a6 f7f6 e7e6
       \*   d7d6 c7c6 b7b6 a7a6 f7f5 e7e5 d7d5 c7c5 b7b5 a7a5
       <<3583, 3071, 3070, 2942, 3517, 3069, 2745, 2617, 2933, 2868, 2803,
         2738, 2673, 2608, 2421, 2356, 2291, 2226, 2161, 2096>>,
       \* 38:
       \*   h1h5 h1h4 h1h3 h1h2 g1h3 g1f3 b1c3 b1a3 h6h7 g2g3
       \*   f2f3 e2e3 d2d3 c2c3 b2b3 a2a3 g2g4 f2f4 e2e4 d2d4
       \*   c2c4 b2b4 a2a4
       <<2503, 1991, 1479, 967, 1478, 1350, 1153, 1025, 3567, 1422, 1357,
         1292, 1227, 1162, 1097, 1032, 1934, 1869, 1804, 1739, 1674, 1609,
         1544>>,
       \* 39:
       \*   h8h7 g8h6 g8f6 f8g7 f8h6 b8c6 a8a7 f7f6 e7e6 d7d6
       \*   c7c6 b7b6 a6a5 f7f5 e7e5 d7d5 c7c5 b7b5
       <<3583, 3070, 2942, 3517, 3069, 2745, 3128, 2933, 2868, 2803, 2738,
         2673, 2088, 2421, 2356, 2291, 2226, 2161>>,
       \* 40:
       \*   h1h6 h1h5 h1h4 h1h3 h1h2 g1h3 g1f3 b1c3 b1a3 h7g8q
       \*   h7g8r h7g8b h7g8n g2g3 f2f3 e2e3 d2d3 c2c3 b2b3 a2a3
       \*   g2g4 f2f4 e2e4 d2d4 c2c4 b2b4 a2a4
       <<3015, 2503, 1991, 1479, 967, 1478, 1350, 1153, 1025, 24503, 20407,
         16311, 12215, 1422, 1357, 1292, 1227, 1162, 1097, 1032, 1934, 1869,
         1804, 1739, 1674, 1609, 1544>>,
       \* 41:
       \*   h8g8 h8h7 h8h6 h8h5 h8h4 h8h3 h8h2 h8h1 b8c6 b8a6
       \*   a8a7 a8a6 f7f6 e7e6 d7d6 c7c6 b7b6 a5a4 f7f5 e7e5
       \*   d7d5 c7c5 b7b5
       <<4031, 3583, 3071, 2559, 2047, 1535, 1023, 511, 2745, 2617, 3128,
         2616, 2933, 2868, 2803, 2738, 2673, 1568, 2421, 2356, 2291, 2226,
         2161>>,
       \* 42:
       \*   h1h8 h1h7 h1h6 h1h5 h1h4 h1h3 h1h2 g1h3 g1f3 b1c3
       \*   b1a3 g2g3 f2f3 e2e3 d2d3 c2c3 b2b3 a2a3 g2g4 f2f4
       \*   e2e4 d2d4 c2c4 b2b4 a2a4
       <<4039, 3527, 3015, 2503, 1991, 1479, 967, 1478, 1350, 1153, 1025,
         1422, 1357, 1292, 1227, 1162, 1097, 1032, 1934, 1869, 1804, 1739,
         1674, 1609, 1544>>,
       \* 43:
       \*   h8g8 h8h7 h8h6 h8h5 h8h4 h8h3 h8h2 h8h1 b8c6 b8a6
       \*   a8a7 a8a6 f7f6 e7e6 d7d6 c7c6 b7b6 a5a4 f7f5 e7e5
       \*   d7d5 c7c5 b7b5
       <<4031, 3583, 3071, 2559, 2047, 1535, 1023, 511, 2745, 2617, 3128,
         2616, 2933, 2868, 2803, 2738, 2673, 1568, 2421, 2356, 2291, 2226,
         2161>>,
       \* 44:
       \*   h8g8 h8h7 h8h6 h8h5 h8h4 h8h3 h8h2 h8h1 f8g7 f8h6
       \*   b8c6 b8a6 a8a7 a8a6 f7f6 e7e6 d7d6 c7c6 b7b6 a5a4
       \*   f7f5 e7e5 d7d5 c7c5 b7b5
       <<4031, 3583, 3071, 2559, 2047, 1535, 1023, 511, 3517, 3069, 2745,
         2617, 3128, 2616, 2933, 2868, 2803, 2738, 2673, 1568, 2421, 2356,
         2291, 2226, 2161>>,
       \* 45:
       \*   h8g8 h8h7 h8h6 h8h5 h8h4 h8h3 h8h2 h8h1 f8g7 f8h6
       \*   b8c6 b8a6 a8a7 a8a6 f7f6 e7e6 d7d6 c7c6 b7b6 a5a4
       \*   f7f5 e7e5 d7d5 c7c5 b7b5
       <<4031, 3583, 3071, 2559, 2047, 1535, 1023, 511, 3517, 3069, 2745,
         2617, 3128, 2616, 2933, 2868, 2803, 2738, 2673, 1568, 2421, 2356,
         2291, 2226, 2161>>,
       \* 46:
       \*   g8h6 g8f6 d8c7 d8b6 d8a5 b8c6 b8a6 h7h6 g7g6 f7f6
       \*   e7e6 d7d6 b7b6 a7a6 c5c4 h7h5 g7g5 f7f5 e7e5 d7d5
       \*   b7b5 a7a5
       <<3070, 2942, 3259, 2683, 2107, 2745, 2617, 3063, 2998, 2933, 2868,
         2803, 2673, 2608, 1698, 2551, 2486, 2421, 2356, 2291, 2161, 2096>>,
       \* 47:
       \*   f3g5 f3e5 f3h4 f3d4 f3g1 h1g1 f1a6 f1b5 f1c4 f1d3
       \*   f1e2 e1e2 d1e2 b1c3 b1a3 e4e5 h2h3 g2g3 d2d3 c2c3
       \*   b2b3 a2a3 h2h4 g2g4 d2d4 c2c4 b2b4 a2a4
       <<2453, 2325, 2005, 1749, 405, 391, 2565, 2117, 1669, 1221, 773, 772,
         771, 1153, 1025, 2332, 1487, 1422, 1227, 1162, 1097, 1032, 1999,
         1934, 1739, 1674, 1609, 1544>>,
       \* 48
       <<>>,
       \* 49:
       \*   g1h3 g1f3 g1e2 f1a6 f1b5 f1c4 f1d3 f1e2 e1e2 d1h5
       \*   d1g4 d1f3 d1e2 b1c3 b1a3 e4d5 e4e5 h2h3 g2g3 f2f3
       \*   d2d3 c2c3 b2b3 a2a3 h2h4 g2g4 f2f4 d2d4 c2c4 b2b4 a2a4
       <<1478, 1350, 774, 2565, 2117, 1669, 1221, 773, 772, 2499, 1923,
         1347, 771, 1153, 1025, 2268, 2332, 1487, 1422, 1357, 1227, 1162,
         1097, 1032, 1999, 1934, 1869, 1739, 1674, 1609, 1544>>,
       \* 50:
       \*   g8h6 g8f6 e8d7 d8d7 d8d6 d8d5 c8d7 c8e6 c8f5 c8g4
       \*   c8h3 b8d7 b8c6 b8a6 h7h6 g7g6 f7f6 e7e6 c7c6 b7b6
       \*   a7a6 h7h5 g7g5 f7f5 e7e5 c7c5 b7b5 a7a5
       <<3070, 2942, 3324, 3323, 2811, 2299, 3322, 2874, 2426, 1978, 1530,
         3321, 2745, 2617, 3063, 2998, 2933, 2868, 2738, 2673, 2608, 2551,
         2486, 2421, 2356, 2226, 2161, 2096>>,
       \* 51:
       \*   g1h3 g1f3 g1e2 f1a6 f1b5 f1c4 f1d3 f1e2 e1e2 d1h5
       \*   d1g4 d1f3 d1e2 b1c3 b1a3 h2h3 g2g3 f2f3 d2d3 c2c3
       \*   b2b3 a2a3 h2h4 g2g4 f2f4 d2d4 c2c4 b2b4 a2a4
       <<1478, 1350, 774, 2565, 2117, 1669, 1221, 773, 772, 2499, 1923,
         1347, 771, 1153, 1025, 1487, 1422, 1357, 1227, 1162, 1097, 1032,
         1999, 1934, 1869, 1739, 1674, 1609, 1544>>,
       \* 52:
       \*   c4f7 c4e6 c4a6 c4d5 c4b5 c4d3 c4b3 c4e2 c4f1 f3f7
       \*   f3f6 f3h5 f3f5 f3g4 f3f4 f3h3 f3g3 f3e3 f3d3 f3c3
       \*   f3b3 f3a3 f3e2 f3d1 g1h3 g1e2 e1e2 e1f1 e1d1 b1c3
       \*   b1a3 h2h3 g2g3 d2d3 c2c3 b2b3 a2a3 h2h4 g2g4 d2d4
       \*   b2b4 a2a4
       <<3418, 2842, 2586, 2266, 2138, 1242, 1114, 794, 346, 3413, 2901,
         2517, 2389, 1941, 1877, 1493, 1429, 1301, 1237, 1173, 1109, 1045,
         789, 213, 1478, 774, 772, 324, 196, 1153, 1025, 1487, 1422, 1227,
         1162, 1097, 1032, 1999, 1934, 1739, 1609, 1544>>,
       \* 53
       <<>>,
       \* 54:
       \*   g8e7 g8h6 g8f6 f8e7 f8d6 f8c5 f8b4 f8a3 e8e7 d8e7
       \*   d8f6 d8g5 d8h4 b8c6 b8a6 h7h6 g7g6 f7f6 d7d6 c7c6
       \*   b7b6 a7a6 h7h5 g7g5 f7f5 d7d5 c7c5 b7b5 a7a5
       <<3390, 3070, 2942, 3389, 2813, 2237, 1661, 1085, 3388, 3387, 2939,
         2491, 2043, 2745, 2617, 3063, 2998, 2933, 2803, 2738, 2673, 2608,
         2551, 2486, 2421, 2291, 2226, 2161, 2096>>,
       \* 55:
       \*   c4f7 c4e6 c4a6 c4d5 c4b5 c4d3 c4b3 c4e2 c4a2 c4f1
       \*   f3f7 f3f6 f3h5 f3f5 f3g4 f3f4 f3h3 f3g3 f3e3 f3d3
       \*   f3c3 f3b3 f3e2 f3d1 g1h3 g1e2 e1e2 e1f1 e1d1 b1c3
       \*   a1a2 a3a4 h2h3 g2g3 d2d3 c2c3 b2b3 h2h4 g2g4 d2d4 b2b4
       <<3418, 2842, 2586, 2266, 2138, 1242, 1114, 794, 538, 346, 3413,
         2901, 2517, 2389, 1941, 1877, 1493, 1429, 1301, 1237, 1173, 1109,
         789, 213, 1478, 774, 772, 324, 196, 1153, 512, 1552, 1487, 1422,
         1227, 1162, 1097, 1999, 1934, 1739, 1609>>,
       \* 56
       <<>>,
       \* 57:
       \*   b5e8 b5b8 b5d7 b5b7 b5c6 b5b6 b5a6 b5h5 b5g5 b5f5
       \*   b5e5 b5d5 b5c5 b5a5 b5c4 b5b4 b5a4 b5d3 b5b3 b5e2
       \*   b5b2 b5f1 b5b1 h1h2 h1g2 h1g1
       <<3873, 3681, 3297, 3169, 2721, 2657, 2593, 2529, 2465, 2401, 2337,
         2273, 2209, 2081, 1697, 1633, 1569, 1249, 1121, 801, 609, 353, 97,
         967, 903, 391>>,
       \* 58
       <<>>,
       \* 59:
       \*   a8a7
       <<3128>>,
       \* 60:
       \*   b5e8 b5b8 b5d7 b5b7 b5c6 b5b6 b5a6 b5h5 b5g5 b5f5
       \*   b5e5 b5d5 b5c5 b5a5 b5c4 b5b4 b5a4 b5d3 b5b3 b5e2
       \*   b5b2 b5f1 b5b1 g1h2 g1g2 g1f2 g1h1 g1f1
       <<3873, 3681, 3297, 3169, 2721, 2657, 2593, 2529, 2465, 2401, 2337,
         2273, 2209, 2081, 1697, 1633, 1569, 1249, 1121, 801, 609, 353, 97,
         966, 902, 838, 454, 326>>,
       \* 61:
       \*   e1f2 e1e2 e1d2 e1f1 e1d1
       <<836, 772, 708, 324, 196>>,
       \* 62:
       \*   e5f6 e5e6 e5d6 e5f5 e5d5 e5f4 e5e4 e5d4
       <<2916, 2852, 2788, 2404, 2276, 1892, 1828, 1764>>,
       \* 63:
       \*   e2f2 e2d2 e2f1 e2e1 e2d1
       <<844, 716, 332, 268, 204>>,
       \* 64:
       \*   e4f5 e4e5 e4d5 e4f4 e4d4 e4f3 e4e3 e4d3
       <<2396, 2332, 2268, 1884, 1756, 1372, 1308, 1244>>,
       \* 65:
       \*   e1f2 e1e2 e1d2 e1f1 e1d1
       <<836, 772, 708, 324, 196>>,
       \* 66:
       \*   e5f6 e5e6 e5d6 e5f5 e5d5 e5f4 e5e4 e5d4
       <<2916, 2852, 2788, 2404, 2276, 1892, 1828, 1764>>,
       \* 67:
       \*   e5f6 e5e6 e5d6 e5f5 e5d5 e5f4 e5e4 e5d4
       <<2916, 2852, 2788, 2404, 2276, 1892, 1828, 1764>>,
       \* 68:
       \*   e1f2 e1e2 e1d2 e1f1 e1d1 a7a8q a7a8r a7a8b a7a8n
       <<836, 772, 708, 324, 196, 24112, 20016, 15920, 11824>>,
       \* 69:
       \*   b7a8 b7c7 b7b6
       <<3633, 3249, 2673>>,
       \* 70:
       \*   e1f2 e1e2 e1d2 e1f1 e1d1
       <<836, 772, 708, 324, 196>>,
       \* 71:
       \*   b7a8 b7c7 b7c6 b7b6
       <<3633, 3249, 2737, 2673>>,
       \* 72:
       \*   b7c8 b7b8 b7a8 b7c7 b7a7 b7b6 b7a6
       <<3761, 3697, 3633, 3249, 3121, 2673, 2609>>,
       \* 73:
       \*   b7c8 b7b8 b7a8 b7a7 b7c6 b7a6
       <<3761, 3697, 3633, 3121, 2737, 2609>>,
       \* 74:
       \*   b7c8 b7a8 b7c7 b7a7 b7c6 b7b6 b7a6
       <<3761, 3633, 3249, 3121, 2737, 2673, 2609>>,
       \* 75:
       \*   e2f3 e2e3 e2d3 e2f2 e2d2 e2f1 e2e1 e2d1
       <<1356, 1292, 1228, 844, 716, 332, 268, 204>>,
       \* 76:
       \*   a7b8 a7a8 a7b7 a7b6 a7a6
       <<3696, 3632, 3184, 2672, 2608>>,
       \* 77:
       \*   d1e2 d1d2 d1c2 d1e1 d1c1
       <<771, 707, 643, 259, 131>>,
       \* 78:
       \*   e8f8 e8d8 e8f7 e8d7 e7e6 e7e5
       <<3964, 3836, 3452, 3324, 2868, 2356>>,
       \* 79:
       \*   e1f2 e1e2 e1d2 e1f1 e1d1
       <<836, 772, 708, 324, 196>>,
       \* 80:
       \*   e8f8 e8d8 e8f7 e8e7 e8d7 e5e4
       <<3964, 3836, 3452, 3388, 3324, 1828>>,
       \* 81:
       \*   e1f2 e1e2 e1d2 e1f1 e1d1
       <<836, 772, 708, 324, 196>>,
       \* 82:
       \*   h3g5 h3f4 h3g1 h1g1 b1c3 b1a3 g2g3 f2f3 e2e3 d2d3
       \*   c2c3 b2b3 a2a3 g2g4 f2f4 e2e4 d2d4 c2c4 b2b4 a2a4
       <<2455, 1879, 407, 391, 1153, 1025, 1422, 1357, 1292, 1227, 1162,
         1097, 1032, 1934, 1869, 1804, 1739, 1674, 1609, 1544>>,
       \* 83:
       \*   h8g8 b8c6 b8a6 h6g8 h6f5 h6g4 g7g6 f7f6 e7e6 d7d6
       \*   c7c6 b7b6 a7a6 f7f5 e7e5 d7d5 c7c5 b7b5 a7a5
       <<4031, 2745, 2617, 4015, 2415, 1967, 2998, 2933, 2868, 2803, 2738,
         2673, 2608, 2421, 2356, 2291, 2226, 2161, 2096>> >>

\* chess.Move(from_square, to_square, promotion) of a move as the tables
\* write it, and back
chess_Move(code) ==
    [from_square |-> code % 64, to_square |-> (code \div 64) % 64,
     promotion |-> IF code \div 4096 = 0 THEN None ELSE Some(code \div 4096)]

chess_code(move) ==
    move.from_square + 64 * move.to_square
        + 4096 * (IF move.promotion = None THEN 0 ELSE move.promotion[1])

\* the legal moves of each position as chess.Move objects
ChessMoveLists ==
    [p \in 1..Len(ChessLegalMoves) |->
        [i \in 1..Len(ChessLegalMoves[p]) |-> chess_Move(ChessLegalMoves[p][i])]]

\* list(chess.Board.legal_moves)
chess_legal_moves(p) == ChessMoveLists[p]

\* move in chess.Board.legal_moves
chess_is_legal(p, move) == InList(chess_code(move), ChessLegalMoves[p])

\* <<position, move, the position board.push(move) gives>>, for the moves
\* the model plays
ChessPush ==
    {
       \* g1h3
       <<1, 1478, 31>>,
       \* g1f3
       <<1, 1350, 13>>,
       \* f2f3
       <<1, 1357, 2>>,
       \* h2h4
       <<1, 1999, 33>>,
       \* e2e4
       <<1, 1804, 6>>,
       \* a2a4
       <<1, 1544, 32>>,
       \* e7e5
       <<2, 2356, 3>>,
       \* g2g4
       <<3, 1934, 4>>,
       \* d8h4
       <<4, 2043, 5>>,
       \* f7f6
       <<6, 2933, 7>>,
       \* e7e5
       <<6, 2356, 11>>,
       \* d2d4
       <<7, 1739, 8>>,
       \* g7g5
       <<8, 2486, 9>>,
       \* d1h5
       <<9, 2499, 10>>,
       \* g1f3
       <<11, 1350, 12>>,
       \* g8f6
       <<13, 2942, 14>>,
       \* f3g1
       <<14, 405, 15>>,
       \* f6g8
       <<15, 4013, 16>>,
       \* g1f3
       <<16, 1350, 17>>,
       \* g8f6
       <<17, 2942, 18>>,
       \* f3g1
       <<18, 405, 19>>,
       \* f6g8
       <<19, 4013, 20>>,
       \* g1f3
       <<20, 1350, 21>>,
       \* g8f6
       <<21, 2942, 22>>,
       \* f3g1
       <<22, 405, 23>>,
       \* f6g8
       <<23, 4013, 24>>,
       \* g1f3
       <<24, 1350, 25>>,
       \* g8f6
       <<25, 2942, 26>>,
       \* f3g1
       <<26, 405, 27>>,
       \* f6g8
       <<27, 4013, 28>>,
       \* g1f3
       <<28, 1350, 29>>,
       \* e2e4
       <<28, 1804, 30>>,
       \* g8h6
       <<31, 3070, 82>>,
       \* g7g5
       <<33, 2486, 34>>,
       \* h4g5
       <<34, 2463, 35>>,
       \* h7h6
       <<35, 3063, 36>>,
       \* g5h6
       <<36, 3046, 37>>,
       \* a7a6
       <<37, 2608, 38>>,
       \* h6h7
       <<38, 3567, 39>>,
       \* a6a5
       <<39, 2088, 40>>,
       \* h7g8q
       <<40, 24503, 41>>,
       \* h7g8r
       <<40, 20407, 43>>,
       \* h7g8b
       <<40, 16311, 44>>,
       \* h7g8n
       <<40, 12215, 45>>,
       \* h8g8
       <<41, 4031, 42>>,
       \* d7d6
       <<46, 2803, 47>>,
       \* e4d5
       <<49, 2268, 50>>,
       \* d8d5
       <<50, 2299, 51>>,
       \* f3f7
       <<52, 3413, 53>>,
       \* a2a3
       <<52, 1032, 54>>,
       \* a7a6
       <<54, 2608, 55>>,
       \* b5b6
       <<57, 2657, 58>>,
       \* h1g1
       <<57, 391, 59>>,
       \* a8a7
       <<59, 3128, 60>>,
       \* e1e2
       <<61, 772, 62>>,
       \* e1d1
       <<61, 196, 67>>,
       \* e5e4
       <<62, 1828, 63>>,
       \* e2e1
       <<63, 268, 64>>,
       \* e4e5
       <<64, 2332, 65>>,
       \* e1e2
       <<65, 772, 66>>,
       \* e1e2
       <<68, 772, 74>>,
       \* a7a8q
       <<68, 24112, 69>>,
       \* a7a8r
       <<68, 20016, 71>>,
       \* a7a8b
       <<68, 15920, 72>>,
       \* a7a8n
       <<68, 11824, 73>>,
       \* b7a8
       <<69, 3633, 70>>,
       \* b7a8
       <<71, 3633, 70>>,
       \* b7a8
       <<72, 3633, 70>>,
       \* b7a8
       <<73, 3633, 70>>,
       \* b7a7
       <<74, 3121, 75>>,
       \* e2e1
       <<75, 268, 76>>,
       \* d1e1
       <<77, 259, 78>>,
       \* e8d8
       <<78, 3836, 81>>,
       \* e7e5
       <<78, 2356, 79>>,
       \* e1e2
       <<79, 772, 80>>,
       \* h3g5
       <<82, 2455, 83>> }

\* chess.Board.push(move), for a legal move: the successor, 0 when it lies
\* outside the part of the game tree the model plays in
chess_push(p, move) ==
    IF \E e \in ChessPush : e[1] = p /\ e[2] = chess_code(move)
    THEN (CHOOSE e \in ChessPush : e[1] = p /\ e[2] = chess_code(move))[3]
    ELSE 0

\* the moves of p the model plays: a legal move with its successor in the
\* graph, or a move that is not legal, which push never sees
chess_in_bound(p, move) == chess_is_legal(p, move) => chess_push(p, move) # 0

\* chess.Board.outcome(): None, or Outcome(termination, winner)
chess_outcome(p) ==
    IF ChessGraph[p].termination = "NONE" THEN None
    ELSE Some([termination |-> ChessGraph[p].termination,
               winner |-> IF ChessGraph[p].termination = "CHECKMATE"
                          THEN Some(~ChessGraph[p].turn) ELSE None])

\* chess.Board.is_game_over()
chess_is_game_over(p) == chess_outcome(p) # None

\* chess.Board.fen()
chess_fen(p) == ChessGraph[p].fen

\* the board part of each FEN of the graph, split at "/": eight ranks, the
\* eighth rank first
ChessBoardPart ==
    <<
       \* 1
       <<<<"r", "n", "b", "q", "k", "b", "n", "r">>,
         <<"p", "p", "p", "p", "p", "p", "p", "p">>,
         <<"8">>,
         <<"8">>,
         <<"8">>,
         <<"8">>,
         <<"P", "P", "P", "P", "P", "P", "P", "P">>,
         <<"R", "N", "B", "Q", "K", "B", "N", "R">>>>,
       \* 2
       <<<<"r", "n", "b", "q", "k", "b", "n", "r">>,
         <<"p", "p", "p", "p", "p", "p", "p", "p">>,
         <<"8">>,
         <<"8">>,
         <<"8">>,
         <<"5", "P", "2">>,
         <<"P", "P", "P", "P", "P", "1", "P", "P">>,
         <<"R", "N", "B", "Q", "K", "B", "N", "R">>>>,
       \* 3
       <<<<"r", "n", "b", "q", "k", "b", "n", "r">>,
         <<"p", "p", "p", "p", "1", "p", "p", "p">>,
         <<"8">>,
         <<"4", "p", "3">>,
         <<"8">>,
         <<"5", "P", "2">>,
         <<"P", "P", "P", "P", "P", "1", "P", "P">>,
         <<"R", "N", "B", "Q", "K", "B", "N", "R">>>>,
       \* 4
       <<<<"r", "n", "b", "q", "k", "b", "n", "r">>,
         <<"p", "p", "p", "p", "1", "p", "p", "p">>,
         <<"8">>,
         <<"4", "p", "3">>,
         <<"6", "P", "1">>,
         <<"5", "P", "2">>,
         <<"P", "P", "P", "P", "P", "2", "P">>,
         <<"R", "N", "B", "Q", "K", "B", "N", "R">>>>,
       \* 5
       <<<<"r", "n", "b", "1", "k", "b", "n", "r">>,
         <<"p", "p", "p", "p", "1", "p", "p", "p">>,
         <<"8">>,
         <<"4", "p", "3">>,
         <<"6", "P", "q">>,
         <<"5", "P", "2">>,
         <<"P", "P", "P", "P", "P", "2", "P">>,
         <<"R", "N", "B", "Q", "K", "B", "N", "R">>>>,
       \* 6
       <<<<"r", "n", "b", "q", "k", "b", "n", "r">>,
         <<"p", "p", "p", "p", "p", "p", "p", "p">>,
         <<"8">>,
         <<"8">>,
         <<"4", "P", "3">>,
         <<"8">>,
         <<"P", "P", "P", "P", "1", "P", "P", "P">>,
         <<"R", "N", "B", "Q", "K", "B", "N", "R">>>>,
       \* 7
       <<<<"r", "n", "b", "q", "k", "b", "n", "r">>,
         <<"p", "p", "p", "p", "p", "1", "p", "p">>,
         <<"5", "p", "2">>,
         <<"8">>,
         <<"4", "P", "3">>,
         <<"8">>,
         <<"P", "P", "P", "P", "1", "P", "P", "P">>,
         <<"R", "N", "B", "Q", "K", "B", "N", "R">>>>,
       \* 8
       <<<<"r", "n", "b", "q", "k", "b", "n", "r">>,
         <<"p", "p", "p", "p", "p", "1", "p", "p">>,
         <<"5", "p", "2">>,
         <<"8">>,
         <<"3", "P", "P", "3">>,
         <<"8">>,
         <<"P", "P", "P", "2", "P", "P", "P">>,
         <<"R", "N", "B", "Q", "K", "B", "N", "R">>>>,
       \* 9
       <<<<"r", "n", "b", "q", "k", "b", "n", "r">>,
         <<"p", "p", "p", "p", "p", "2", "p">>,
         <<"5", "p", "2">>,
         <<"6", "p", "1">>,
         <<"3", "P", "P", "3">>,
         <<"8">>,
         <<"P", "P", "P", "2", "P", "P", "P">>,
         <<"R", "N", "B", "Q", "K", "B", "N", "R">>>>,
       \* 10
       <<<<"r", "n", "b", "q", "k", "b", "n", "r">>,
         <<"p", "p", "p", "p", "p", "2", "p">>,
         <<"5", "p", "2">>,
         <<"6", "p", "Q">>,
         <<"3", "P", "P", "3">>,
         <<"8">>,
         <<"P", "P", "P", "2", "P", "P", "P">>,
         <<"R", "N", "B", "1", "K", "B", "N", "R">>>>,
       \* 11
       <<<<"r", "n", "b", "q", "k", "b", "n", "r">>,
         <<"p", "p", "p", "p", "1", "p", "p", "p">>,
         <<"8">>,
         <<"4", "p", "3">>,
         <<"4", "P", "3">>,
         <<"8">>,
         <<"P", "P", "P", "P", "1", "P", "P", "P">>,
         <<"R", "N", "B", "Q", "K", "B", "N", "R">>>>,
       \* 12
       <<<<"r", "n", "b", "q", "k", "b", "n", "r">>,
         <<"p", "p", "p", "p", "1", "p", "p", "p">>,
         <<"8">>,
         <<"4", "p", "3">>,
         <<"4", "P", "3">>,
         <<"5", "N", "2">>,
         <<"P", "P", "P", "P", "1", "P", "P", "P">>,
         <<"R", "N", "B", "Q", "K", "B", "1", "R">>>>,
       \* 13
       <<<<"r", "n", "b", "q", "k", "b", "n", "r">>,
         <<"p", "p", "p", "p", "p", "p", "p", "p">>,
         <<"8">>,
         <<"8">>,
         <<"8">>,
         <<"5", "N", "2">>,
         <<"P", "P", "P", "P", "P", "P", "P", "P">>,
         <<"R", "N", "B", "Q", "K", "B", "1", "R">>>>,
       \* 14
       <<<<"r", "n", "b", "q", "k", "b", "1", "r">>,
         <<"p", "p", "p", "p", "p", "p", "p", "p">>,
         <<"5", "n", "2">>,
         <<"8">>,
         <<"8">>,
         <<"5", "N", "2">>,
         <<"P", "P", "P", "P", "P", "P", "P", "P">>,
         <<"R", "N", "B", "Q", "K", "B", "1", "R">>>>,
       \* 15
       <<<<"r", "n", "b", "q", "k", "b", "1", "r">>,
         <<"p", "p", "p", "p", "p", "p", "p", "p">>,
         <<"5", "n", "2">>,
         <<"8">>,
         <<"8">>,
         <<"8">>,
         <<"P", "P", "P", "P", "P", "P", "P", "P">>,
         <<"R", "N", "B", "Q", "K", "B", "N", "R">>>>,
       \* 16
       <<<<"r", "n", "b", "q", "k", "b", "n", "r">>,
         <<"p", "p", "p", "p", "p", "p", "p", "p">>,
         <<"8">>,
         <<"8">>,
         <<"8">>,
         <<"8">>,
         <<"P", "P", "P", "P", "P", "P", "P", "P">>,
         <<"R", "N", "B", "Q", "K", "B", "N", "R">>>>,
       \* 17
       <<<<"r", "n", "b", "q", "k", "b", "n", "r">>,
         <<"p", "p", "p", "p", "p", "p", "p", "p">>,
         <<"8">>,
         <<"8">>,
         <<"8">>,
         <<"5", "N", "2">>,
         <<"P", "P", "P", "P", "P", "P", "P", "P">>,
         <<"R", "N", "B", "Q", "K", "B", "1", "R">>>>,
       \* 18
       <<<<"r", "n", "b", "q", "k", "b", "1", "r">>,
         <<"p", "p", "p", "p", "p", "p", "p", "p">>,
         <<"5", "n", "2">>,
         <<"8">>,
         <<"8">>,
         <<"5", "N", "2">>,
         <<"P", "P", "P", "P", "P", "P", "P", "P">>,
         <<"R", "N", "B", "Q", "K", "B", "1", "R">>>>,
       \* 19
       <<<<"r", "n", "b", "q", "k", "b", "1", "r">>,
         <<"p", "p", "p", "p", "p", "p", "p", "p">>,
         <<"5", "n", "2">>,
         <<"8">>,
         <<"8">>,
         <<"8">>,
         <<"P", "P", "P", "P", "P", "P", "P", "P">>,
         <<"R", "N", "B", "Q", "K", "B", "N", "R">>>>,
       \* 20
       <<<<"r", "n", "b", "q", "k", "b", "n", "r">>,
         <<"p", "p", "p", "p", "p", "p", "p", "p">>,
         <<"8">>,
         <<"8">>,
         <<"8">>,
         <<"8">>,
         <<"P", "P", "P", "P", "P", "P", "P", "P">>,
         <<"R", "N", "B", "Q", "K", "B", "N", "R">>>>,
       \* 21
       <<<<"r", "n", "b", "q", "k", "b", "n", "r">>,
         <<"p", "p", "p", "p", "p", "p", "p", "p">>,
         <<"8">>,
         <<"8">>,
         <<"8">>,
         <<"5", "N", "2">>,
         <<"P", "P", "P", "P", "P", "P", "P", "P">>,
         <<"R", "N", "B", "Q", "K", "B", "1", "R">>>>,
       \* 22
       <<<<"r", "n", "b", "q", "k", "b", "1", "r">>,
         <<"p", "p", "p", "p", "p", "p", "p", "p">>,
         <<"5", "n", "2">>,
         <<"8">>,
         <<"8">>,
         <<"5", "N", "2">>,
         <<"P", "P", "P", "P", "P", "P", "P", "P">>,
         <<"R", "N", "B", "Q", "K", "B", "1", "R">>>>,
       \* 23
       <<<<"r", "n", "b", "q", "k", "b", "1", "r">>,
         <<"p", "p", "p", "p", "p", "p", "p", "p">>,
         <<"5", "n", "2">>,
         <<"8">>,
         <<"8">>,
         <<"8">>,
         <<"P", "P", "P", "P", "P", "P", "P", "P">>,
         <<"R", "N", "B", "Q", "K", "B", "N", "R">>>>,
       \* 24
       <<<<"r", "n", "b", "q", "k", "b", "n", "r">>,
         <<"p", "p", "p", "p", "p", "p", "p", "p">>,
         <<"8">>,
         <<"8">>,
         <<"8">>,
         <<"8">>,
         <<"P", "P", "P", "P", "P", "P", "P", "P">>,
         <<"R", "N", "B", "Q", "K", "B", "N", "R">>>>,
       \* 25
       <<<<"r", "n", "b", "q", "k", "b", "n", "r">>,
         <<"p", "p", "p", "p", "p", "p", "p", "p">>,
         <<"8">>,
         <<"8">>,
         <<"8">>,
         <<"5", "N", "2">>,
         <<"P", "P", "P", "P", "P", "P", "P", "P">>,
         <<"R", "N", "B", "Q", "K", "B", "1", "R">>>>,
       \* 26
       <<<<"r", "n", "b", "q", "k", "b", "1", "r">>,
         <<"p", "p", "p", "p", "p", "p", "p", "p">>,
         <<"5", "n", "2">>,
         <<"8">>,
         <<"8">>,
         <<"5", "N", "2">>,
         <<"P", "P", "P", "P", "P", "P", "P", "P">>,
         <<"R", "N", "B", "Q", "K", "B", "1", "R">>>>,
       \* 27
       <<<<"r", "n", "b", "q", "k", "b", "1", "r">>,
         <<"p", "p", "p", "p", "p", "p", "p", "p">>,
         <<"5", "n", "2">>,
         <<"8">>,
         <<"8">>,
         <<"8">>,
         <<"P", "P", "P", "P", "P", "P", "P", "P">>,
         <<"R", "N", "B", "Q", "K", "B", "N", "R">>>>,
       \* 28
       <<<<"r", "n", "b", "q", "k", "b", "n", "r">>,
         <<"p", "p", "p", "p", "p", "p", "p", "p">>,
         <<"8">>,
         <<"8">>,
         <<"8">>,
         <<"8">>,
         <<"P", "P", "P", "P", "P", "P", "P", "P">>,
         <<"R", "N", "B", "Q", "K", "B", "N", "R">>>>,
       \* 29
       <<<<"r", "n", "b", "q", "k", "b", "n", "r">>,
         <<"p", "p", "p", "p", "p", "p", "p", "p">>,
         <<"8">>,
         <<"8">>,
         <<"8">>,
         <<"5", "N", "2">>,
         <<"P", "P", "P", "P", "P", "P", "P", "P">>,
         <<"R", "N", "B", "Q", "K", "B", "1", "R">>>>,
       \* 30
       <<<<"r", "n", "b", "q", "k", "b", "n", "r">>,
         <<"p", "p", "p", "p", "p", "p", "p", "p">>,
         <<"8">>,
         <<"8">>,
         <<"4", "P", "3">>,
         <<"8">>,
         <<"P", "P", "P", "P", "1", "P", "P", "P">>,
         <<"R", "N", "B", "Q", "K", "B", "N", "R">>>>,
       \* 31
       <<<<"r", "n", "b", "q", "k", "b", "n", "r">>,
         <<"p", "p", "p", "p", "p", "p", "p", "p">>,
         <<"8">>,
         <<"8">>,
         <<"8">>,
         <<"7", "N">>,
         <<"P", "P", "P", "P", "P", "P", "P", "P">>,
         <<"R", "N", "B", "Q", "K", "B", "1", "R">>>>,
       \* 32
       <<<<"r", "n", "b", "q", "k", "b", "n", "r">>,
         <<"p", "p", "p", "p", "p", "p", "p", "p">>,
         <<"8">>,
         <<"8">>,
         <<"P", "7">>,
         <<"8">>,
         <<"1", "P", "P", "P", "P", "P", "P", "P">>,
         <<"R", "N", "B", "Q", "K", "B", "N", "R">>>>,
       \* 33
       <<<<"r", "n", "b", "q", "k", "b", "n", "r">>,
         <<"p", "p", "p", "p", "p", "p", "p", "p">>,
         <<"8">>,
         <<"8">>,
         <<"7", "P">>,
         <<"8">>,
         <<"P", "P", "P", "P", "P", "P", "P", "1">>,
         <<"R", "N", "B", "Q", "K", "B", "N", "R">>>>,
       \* 34
       <<<<"r", "n", "b", "q", "k", "b", "n", "r">>,
         <<"p", "p", "p", "p", "p", "p", "1", "p">>,
         <<"8">>,
         <<"6", "p", "1">>,
         <<"7", "P">>,
         <<"8">>,
         <<"P", "P", "P", "P", "P", "P", "P", "1">>,
         <<"R", "N", "B", "Q", "K", "B", "N", "R">>>>,
       \* 35
       <<<<"r", "n", "b", "q", "k", "b", "n", "r">>,
         <<"p", "p", "p", "p", "p", "p", "1", "p">>,
         <<"8">>,
         <<"6", "P", "1">>,
         <<"8">>,
         <<"8">>,
         <<"P", "P", "P", "P", "P", "P", "P", "1">>,
         <<"R", "N", "B", "Q", "K", "B", "N", "R">>>>,
       \* 36
       <<<<"r", "n", "b", "q", "k", "b", "n", "r">>,
         <<"p", "p", "p", "p", "p", "p", "2">>,
         <<"7", "p">>,
         <<"6", "P", "1">>,
         <<"8">>,
         <<"8">>,
         <<"P", "P", "P", "P", "P", "P", "P", "1">>,
         <<"R", "N", "B", "Q", "K", "B", "N", "R">>>>,
       \* 37
       <<<<"r", "n", "b", "q", "k", "b", "n", "r">>,
         <<"p", "p", "p", "p", "p", "p", "2">>,
         <<"7", "P">>,
         <<"8">>,
         <<"8">>,
         <<"8">>,
         <<"P", "P", "P", "P", "P", "P", "P", "1">>,
         <<"R", "N", "B", "Q", "K", "B", "N", "R">>>>,
       \* 38
       <<<<"r", "n", "b", "q", "k", "b", "n", "r">>,
         <<"1", "p", "p", "p", "p", "p", "2">>,
         <<"p", "6", "P">>,
         <<"8">>,
         <<"8">>,
         <<"8">>,
         <<"P", "P", "P", "P", "P", "P", "P", "1">>,
         <<"R", "N", "B", "Q", "K", "B", "N", "R">>>>,
       \* 39
       <<<<"r", "n", "b", "q", "k", "b", "n", "r">>,
         <<"1", "p", "p", "p", "p", "p", "1", "P">>,
         <<"p", "7">>,
         <<"8">>,
         <<"8">>,
         <<"8">>,
         <<"P", "P", "P", "P", "P", "P", "P", "1">>,
         <<"R", "N", "B", "Q", "K", "B", "N", "R">>>>,
       \* 40
       <<<<"r", "n", "b", "q", "k", "b", "n", "r">>,
         <<"1", "p", "p", "p", "p", "p", "1", "P">>,
         <<"8">>,
         <<"p", "7">>,
         <<"8">>,
         <<"8">>,
         <<"P", "P", "P", "P", "P", "P", "P", "1">>,
         <<"R", "N", "B", "Q", "K", "B", "N", "R">>>>,
       \* 41
       <<<<"r", "n", "b", "q", "k", "b", "Q", "r">>,
         <<"1", "p", "p", "p", "p", "p", "2">>,
         <<"8">>,
         <<"p", "7">>,
         <<"8">>,
         <<"8">>,
         <<"P", "P", "P", "P", "P", "P", "P", "1">>,
         <<"R", "N", "B", "Q", "K", "B", "N", "R">>>>,
       \* 42
       <<<<"r", "n", "b", "q", "k", "b", "r", "1">>,
         <<"1", "p", "p", "p", "p", "p", "2">>,
         <<"8">>,
         <<"p", "7">>,
         <<"8">>,
         <<"8">>,
         <<"P", "P", "P", "P", "P", "P", "P", "1">>,
         <<"R", "N", "B", "Q", "K", "B", "N", "R">>>>,
       \* 43
       <<<<"r", "n", "b", "q", "k", "b", "R", "r">>,
         <<"1", "p", "p", "p", "p", "p", "2">>,
         <<"8">>,
         <<"p", "7">>,
         <<"8">>,
         <<"8">>,
         <<"P", "P", "P", "P", "P", "P", "P", "1">>,
         <<"R", "N", "B", "Q", "K", "B", "N", "R">>>>,
       \* 44
       <<<<"r", "n", "b", "q", "k", "b", "B", "r">>,
         <<"1", "p", "p", "p", "p", "p", "2">>,
         <<"8">>,
         <<"p", "7">>,
         <<"8">>,
         <<"8">>,
         <<"P", "P", "P", "P", "P", "P", "P", "1">>,
         <<"R", "N", "B", "Q", "K", "B", "N", "R">>>>,
       \* 45
       <<<<"r", "n", "b", "q", "k", "b", "N", "r">>,
         <<"1", "p", "p", "p", "p", "p", "2">>,
         <<"8">>,
         <<"p", "7">>,
         <<"8">>,
         <<"8">>,
         <<"P", "P", "P", "P", "P", "P", "P", "1">>,
         <<"R", "N", "B", "Q", "K", "B", "N", "R">>>>,
       \* 46
       <<<<"r", "n", "b", "q", "k", "b", "n", "r">>,
         <<"p", "p", "1", "p", "p", "p", "p", "p">>,
         <<"8">>,
         <<"2", "p", "5">>,
         <<"4", "P", "3">>,
         <<"5", "N", "2">>,
         <<"P", "P", "P", "P", "1", "P", "P", "P">>,
         <<"R", "N", "B", "Q", "K", "B", "1", "R">>>>,
       \* 47
       <<<<"r", "n", "b", "q", "k", "b", "n", "r">>,
         <<"p", "p", "2", "p", "p", "p", "p">>,
         <<"3", "p", "4">>,
         <<"2", "p", "5">>,
         <<"4", "P", "3">>,
         <<"5", "N", "2">>,
         <<"P", "P", "P", "P", "1", "P", "P", "P">>,
         <<"R", "N", "B", "Q", "K", "B", "1", "R">>>>,
       \* 48
       <<<<"8">>,
         <<"8">>,
         <<"8">>,
         <<"8">>,
         <<"8">>,
         <<"8">>,
         <<"8">>,
         <<"8">>>>,
       \* 49
       <<<<"r", "n", "b", "q", "k", "b", "n", "r">>,
         <<"p", "p", "p", "1", "p", "p", "p", "p">>,
         <<"8">>,
         <<"3", "p", "4">>,
         <<"4", "P", "3">>,
         <<"8">>,
         <<"P", "P", "P", "P", "1", "P", "P", "P">>,
         <<"R", "N", "B", "Q", "K", "B", "N", "R">>>>,
       \* 50
       <<<<"r", "n", "b", "q", "k", "b", "n", "r">>,
         <<"p", "p", "p", "1", "p", "p", "p", "p">>,
         <<"8">>,
         <<"3", "P", "4">>,
         <<"8">>,
         <<"8">>,
         <<"P", "P", "P", "P", "1", "P", "P", "P">>,
         <<"R", "N", "B", "Q", "K", "B", "N", "R">>>>,
       \* 51
       <<<<"r", "n", "b", "1", "k", "b", "n", "r">>,
         <<"p", "p", "p", "1", "p", "p", "p", "p">>,
         <<"8">>,
         <<"3", "q", "4">>,
         <<"8">>,
         <<"8">>,
         <<"P", "P", "P", "P", "1", "P", "P", "P">>,
         <<"R", "N", "B", "Q", "K", "B", "N", "R">>>>,
       \* 52
       <<<<"r", "n", "b", "q", "k", "b", "n", "r">>,
         <<"p", "p", "p", "p", "1", "p", "p", "p">>,
         <<"8">>,
         <<"4", "p", "3">>,
         <<"2", "B", "1", "P", "3">>,
         <<"5", "Q", "2">>,
         <<"P", "P", "P", "P", "1", "P", "P", "P">>,
         <<"R", "N", "B", "1", "K", "1", "N", "R">>>>,
       \* 53
       <<<<"r", "n", "b", "q", "k", "b", "n", "r">>,
         <<"p", "p", "p", "p", "1", "Q", "p", "p">>,
         <<"8">>,
         <<"4", "p", "3">>,
         <<"2", "B", "1", "P", "3">>,
         <<"8">>,
         <<"P", "P", "P", "P", "1", "P", "P", "P">>,
         <<"R", "N", "B", "1", "K", "1", "N", "R">>>>,
       \* 54
       <<<<"r", "n", "b", "q", "k", "b", "n", "r">>,
         <<"p", "p", "p", "p", "1", "p", "p", "p">>,
         <<"8">>,
         <<"4", "p", "3">>,
         <<"2", "B", "1", "P", "3">>,
         <<"P", "4", "Q", "2">>,
         <<"1", "P", "P", "P", "1", "P", "P", "P">>,
         <<"R", "N", "B", "1", "K", "1", "N", "R">>>>,
       \* 55
       <<<<"r", "n", "b", "q", "k", "b", "n", "r">>,
         <<"1", "p", "p", "p", "1", "p", "p", "p">>,
         <<"p", "7">>,
         <<"4", "p", "3">>,
         <<"2", "B", "1", "P", "3">>,
         <<"P", "4", "Q", "2">>,
         <<"1", "P", "P", "P", "1", "P", "P", "P">>,
         <<"R", "N", "B", "1", "K", "1", "N", "R">>>>,
       \* 56
       <<<<"k", "7">>,
         <<"8">>,
         <<"1", "Q", "6">>,
         <<"8">>,
         <<"8">>,
         <<"8">>,
         <<"8">>,
         <<"7", "K">>>>,
       \* 57
       <<<<"k", "7">>,
         <<"8">>,
         <<"8">>,
         <<"1", "Q", "6">>,
         <<"8">>,
         <<"8">>,
         <<"8">>,
         <<"7", "K">>>>,
       \* 58
       <<<<"k", "7">>,
         <<"8">>,
         <<"1", "Q", "6">>,
         <<"8">>,
         <<"8">>,
         <<"8">>,
         <<"8">>,
         <<"7", "K">>>>,
       \* 59
       <<<<"k", "7">>,
         <<"8">>,
         <<"8">>,
         <<"1", "Q", "6">>,
         <<"8">>,
         <<"8">>,
         <<"8">>,
         <<"6", "K", "1">>>>,
       \* 60
       <<<<"8">>,
         <<"k", "7">>,
         <<"8">>,
         <<"1", "Q", "6">>,
         <<"8">>,
         <<"8">>,
         <<"8">>,
         <<"6", "K", "1">>>>,
       \* 61
       <<<<"8">>,
         <<"8">>,
         <<"8">>,
         <<"4", "k", "3">>,
         <<"8">>,
         <<"8">>,
         <<"8">>,
         <<"4", "K", "3">>>>,
       \* 62
       <<<<"8">>,
         <<"8">>,
         <<"8">>,
         <<"4", "k", "3">>,
         <<"8">>,
         <<"8">>,
         <<"4", "K", "3">>,
         <<"8">>>>,
       \* 63
       <<<<"8">>,
         <<"8">>,
         <<"8">>,
         <<"8">>,
         <<"4", "k", "3">>,
         <<"8">>,
         <<"4", "K", "3">>,
         <<"8">>>>,
       \* 64
       <<<<"8">>,
         <<"8">>,
         <<"8">>,
         <<"8">>,
         <<"4", "k", "3">>,
         <<"8">>,
         <<"8">>,
         <<"4", "K", "3">>>>,
       \* 65
       <<<<"8">>,
         <<"8">>,
         <<"8">>,
         <<"4", "k", "3">>,
         <<"8">>,
         <<"8">>,
         <<"8">>,
         <<"4", "K", "3">>>>,
       \* 66
       <<<<"8">>,
         <<"8">>,
         <<"8">>,
         <<"4", "k", "3">>,
         <<"8">>,
         <<"8">>,
         <<"4", "K", "3">>,
         <<"8">>>>,
       \* 67
       <<<<"8">>,
         <<"8">>,
         <<"8">>,
         <<"4", "k", "3">>,
         <<"8">>,
         <<"8">>,
         <<"8">>,
         <<"3", "K", "4">>>>,
       \* 68
       <<<<"8">>,
         <<"P", "k", "6">>,
         <<"8">>,
         <<"8">>,
         <<"8">>,
         <<"8">>,
         <<"8">>,
         <<"4", "K", "3">>>>,
       \* 69
       <<<<"Q", "7">>,
         <<"1", "k", "6">>,
         <<"8">>,
         <<"8">>,
         <<"8">>,
         <<"8">>,
         <<"8">>,
         <<"4", "K", "3">>>>,
       \* 70
       <<<<"k", "7">>,
         <<"8">>,
         <<"8">>,
         <<"8">>,
         <<"8">>,
         <<"8">>,
         <<"8">>,
         <<"4", "K", "3">>>>,
       \* 71
       <<<<"R", "7">>,
         <<"1", "k", "6">>,
         <<"8">>,
         <<"8">>,
         <<"8">>,
         <<"8">>,
         <<"8">>,
         <<"4", "K", "3">>>>,
       \* 72
       <<<<"B", "7">>,
         <<"1", "k", "6">>,
         <<"8">>,
         <<"8">>,
         <<"8">>,
         <<"8">>,
         <<"8">>,
         <<"4", "K", "3">>>>,
       \* 73
       <<<<"N", "7">>,
         <<"1", "k", "6">>,
         <<"8">>,
         <<"8">>,
         <<"8">>,
         <<"8">>,
         <<"8">>,
         <<"4", "K", "3">>>>,
       \* 74
       <<<<"8">>,
         <<"P", "k", "6">>,
         <<"8">>,
         <<"8">>,
         <<"8">>,
         <<"8">>,
         <<"4", "K", "3">>,
         <<"8">>>>,
       \* 75
       <<<<"8">>,
         <<"k", "7">>,
         <<"8">>,
         <<"8">>,
         <<"8">>,
         <<"8">>,
         <<"4", "K", "3">>,
         <<"8">>>>,
       \* 76
       <<<<"8">>,
         <<"k", "7">>,
         <<"8">>,
         <<"8">>,
         <<"8">>,
         <<"8">>,
         <<"8">>,
         <<"4", "K", "3">>>>,
       \* 77
       <<<<"4", "k", "3">>,
         <<"4", "p", "3">>,
         <<"8">>,
         <<"8">>,
         <<"8">>,
         <<"8">>,
         <<"8">>,
         <<"3", "K", "4">>>>,
       \* 78
       <<<<"4", "k", "3">>,
         <<"4", "p", "3">>,
         <<"8">>,
         <<"8">>,
         <<"8">>,
         <<"8">>,
         <<"8">>,
         <<"4", "K", "3">>>>,
       \* 79
       <<<<"4", "k", "3">>,
         <<"8">>,
         <<"8">>,
         <<"4", "p", "3">>,
         <<"8">>,
         <<"8">>,
         <<"8">>,
         <<"4", "K", "3">>>>,
       \* 80
       <<<<"4", "k", "3">>,
         <<"8">>,
         <<"8">>,
         <<"4", "p", "3">>,
         <<"8">>,
         <<"8">>,
         <<"4", "K", "3">>,
         <<"8">>>>,
       \* 81
       <<<<"3", "k", "4">>,
         <<"4", "p", "3">>,
         <<"8">>,
         <<"8">>,
         <<"8">>,
         <<"8">>,
         <<"8">>,
         <<"4", "K", "3">>>>,
       \* 82
       <<<<"r", "n", "b", "q", "k", "b", "1", "r">>,
         <<"p", "p", "p", "p", "p", "p", "p", "p">>,
         <<"7", "n">>,
         <<"8">>,
         <<"8">>,
         <<"7", "N">>,
         <<"P", "P", "P", "P", "P", "P", "P", "P">>,
         <<"R", "N", "B", "Q", "K", "B", "1", "R">>>>,
       \* 83
       <<<<"r", "n", "b", "q", "k", "b", "1", "r">>,
         <<"p", "p", "p", "p", "p", "p", "p", "p">>,
         <<"7", "n">>,
         <<"6", "N", "1">>,
         <<"8">>,
         <<"8">>,
         <<"P", "P", "P", "P", "P", "P", "P", "P">>,
         <<"R", "N", "B", "Q", "K", "B", "1", "R">>>> >>

\* chess.Piece of a FEN symbol: (piece_type, color)
chess_piece(symbol) ==
    <<CASE lower(symbol) = "p" -> "PAWN" [] lower(symbol) = "n" -> "KNIGHT"
        [] lower(symbol) = "b" -> "BISHOP" [] lower(symbol) = "r" -> "ROOK"
        [] lower(symbol) = "q" -> "QUEEN" [] lower(symbol) = "k" -> "KING",
      symbol # lower(symbol)>>

\* chess.Board.piece_map(): the (square, piece) pairs of the position; the
\* i-th rank of the FEN is rank 9 - i, whose squares start at 8 * (8 - i)
chess_rank_pieces(p, i) ==
    {<<8 * (8 - i) + cell[1], chess_piece(cell[2])>> :
        cell \in ScanRank(ChessBoardPart[p][i], 1, 0)}

chess_piece_map ==
    [p \in ChessPositions |->
        UNION {chess_rank_pieces(p, i) : i \in 1..Len(ChessBoardPart[p])}]

\* chess.SQUARES
chess_SQUARES == 0..63

\* chess.Board.piece_at(square): None or the piece
chess_piece_at(p, square) ==
    IF \E x \in chess_piece_map[p] : x[1] = square
    THEN Some((CHOOSE x \in chess_piece_map[p] : x[1] = square)[2])
    ELSE None

(***************************************************************************)
(* ChessBoard (game/chess_board.py).                                       *)
(***************************************************************************)
ChessBoard(fen) ==
    [variant |-> "ChessBoard", board |-> fen, move_history |-> <<>>, result |-> None]

\* reset that leaves the stored result of the last game in place
ChessBoard_reset_keeps_result(b) ==
    [b EXCEPT !.board = CHESS_START, !.move_history = <<>>]

ChessBoard_reset(b) ==
    [b EXCEPT !.board = CHESS_START, !.move_history = <<>>, !.result = None]

\* get_legal_moves that ignores the player it is asked about
ChessBoard_get_legal_moves_any_player(b, player) == chess_legal_moves(b.board)

ChessBoard_get_legal_moves(b, player) ==
    IF player # None /\ player # Some(chess_turn(b.board)) THEN <<>>
    ELSE chess_legal_moves(b.board)

Raise(b, err) == [b |-> b, raised |-> err, reward |-> 0, done |-> FALSE]
Return(b, reward, done) == [b |-> b, raised |-> "none", reward |-> reward, done |-> done]

\* ChessBoard.apply_move that records the move and forgets board.push(move)
ChessBoard_apply_move_no_push(b, move) ==
    IF ~chess_is_legal(b.board, move) THEN Raise(b, "ValueError")
    ELSE Return([b EXCEPT !.move_history = Append(@, move)], 0, FALSE)

ChessBoard_apply_move(b, move) ==
    IF ~chess_is_legal(b.board, move) THEN Raise(b, "ValueError")
    ELSE LET player_before == chess_turn(b.board)
             b1 == [b EXCEPT !.move_history = Append(@, move),
                             !.board = chess_push(@, move)]
         IN IF chess_is_game_over(b1.board)
            THEN LET result == chess_outcome(b1.board)
                     b2 == [b1 EXCEPT !.result = result]
                 IN IF result # None /\ result[1].winner # None
                    THEN Return(b2, IF result[1].winner = Some(player_before)
                                    THEN 1 ELSE -1, TRUE)
                    ELSE Return(b2, 0, TRUE)
            ELSE Return(b1, 0, FALSE)

ChessBoard_is_game_over(b) == chess_is_game_over(b.board)

\* a state hash that is the same for every position
ChessBoard_get_state_hash_constant(b) == chess_fen(CHESS_START)

ChessBoard_get_state_hash(b) == chess_fen(b.board)

BOARD_SIZE == 8

PIECE_TO_PLANE(piece) ==
    (CASE piece[1] = "PAWN" -> 0 [] piece[1] = "KNIGHT" -> 1 [] piece[1] = "BISHOP" -> 2
       [] piece[1] = "ROOK" -> 3 [] piece[1] = "QUEEN" -> 4 [] piece[1] = "KING" -> 5)
    + (IF piece[2] = WHITE THEN 0 ELSE 6)

\* an observation is the set of the (plane, row, col) whose entry is 1.0;
\* row, col = divmod(square, BOARD_SIZE), row = 7 - row
ChessBoard_to_observation(b) ==
    {<<PIECE_TO_PLANE(chess_piece_at(b.board, square)[1]),
       7 - (square \div BOARD_SIZE), square % BOARD_SIZE>> :
        square \in {sq \in chess_SQUARES : chess_piece_at(b.board, sq) # None}}

\* get_result that names the side to move of the final position as winner
ChessBoard_get_result_side_to_move(b) ==
    IF ~ChessBoard_is_game_over(b) THEN <<>>
    ELSE <<[winner |-> IF chess_outcome(b.board)[1].winner # None
                       THEN Some(IF chess_turn(b.board) THEN "white" ELSE "black")
                       ELSE None,
            termination |-> chess_outcome(b.board)[1].termination,
            moves |-> Len(b.move_history)]>>

\* a result dict is <<>> when it is {} and <<record>> otherwise
ChessBoard_get_result(b) ==
    IF ~ChessBoard_is_game_over(b) THEN <<>>
    ELSE LET result == chess_outcome(b.board) IN
         IF result = None
         THEN <<[winner |-> None, termination |-> "UNKNOWN",
                 moves |-> Len(b.move_history)]>>
         ELSE <<[winner |-> IF result[1].winner # None
                            THEN Some(IF result[1].winner[1] THEN "white" ELSE "black")
                            ELSE None,
                 termination |-> result[1].termination,
                 moves |-> Len(b.move_history)]>>


(***************************************************************************)
(* pyffish as the oracle-backed Xiangqi boards use it.  A position is a    *)
(* FEN string, a move a string such as "h3e3".  The tables are the part of *)
(* the game tree the model plays in: XqGraph holds each FEN's second       *)
(* field, the side to move; XqLegalMoves holds all legal moves of each     *)
(* position in the order of Fairy-Stockfish's move generator (rooks,       *)
(* advisors, cannons, soldiers, horses, elephants, king; origins and       *)
(* targets from a1 upwards); XqGetFen holds the position sf.get_fen gives, *)
(* for the moves the model plays.  Position 1 is sf.start_fen("xiangqi");  *)
(* the positions of XqRoots are those a board is constructed on.  In       *)
(* position 15 Black, in position 19 Red is in check and has no legal      *)
(* move.  The comment of a position is its FEN.                            *)
(***************************************************************************)
Fen(side) == [side |-> side]

XqGraph ==
    <<
       \* 1: rnbakabnr/9/1c5c1/p1p1p1p1p/9/9/P1P1P1P1P/1C5C1/9/RNBAKABNR w - - 0 1
       Fen("w"),
       \* 2: rnbakabnr/9/1c5c1/p1p1p1p1p/9/9/P1P1P1P1P/1C5C1/R8/1NBAKABNR b - - 1 1
       Fen("b"),
       \* 3: 1nbakabnr/r8/1c5c1/p1p1p1p1p/9/9/P1P1P1P1P/1C5C1/R8/1NBAKABNR w - - 2 2
       Fen("w"),
       \* 4: 1nbakabnr/r8/1c5c1/p1p1p1p1p/9/9/P1P1P1P1P/1C5C1/R7R/1NBAKABN1 b - - 3 2
       Fen("b"),
       \* 5: rnbakabCr/9/1c5c1/p1p1p1p1p/9/9/P1P1P1P1P/1C7/9/RNBAKABNR b - - 0 1
       Fen("b"),
       \* 6: rnbakabr1/9/1c5c1/p1p1p1p1p/9/9/P1P1P1P1P/1C7/9/RNBAKABNR w - - 0 2
       Fen("w"),
       \* 7: rnbakabnr/9/1c5c1/p1p1p1p1p/9/9/P1P1P1P1P/1C2C4/9/RNBAKABNR b - - 1 1
       Fen("b"),
       \* 8: rnbakab1r/9/1c4nc1/p1p1p1p1p/9/9/P1P1P1P1P/1C2C4/9/RNBAKABNR w - - 2 2
       Fen("w"),
       \* 9: rnbakab1r/9/1c4nc1/p1p1C1p1p/9/9/P1P1P1P1P/1C7/9/RNBAKABNR b - - 0 2
       Fen("b"),
       \* 10: rnbakabnr/9/1c5c1/p1p1p1p1p/9/9/P1P1P1P1P/1CN4C1/9/R1BAKABNR b - - 1 1
       Fen("b"),
       \* 11: r1bakabnr/9/1cn4c1/p1p1p1p1p/9/9/P1P1P1P1P/1CN4C1/9/R1BAKABNR w - - 2 2
       Fen("w"),
       \* 12: r1bakabnr/9/1cn4c1/p1p1p1p1p/9/9/P1P1P1P1P/1CN4C1/R8/2BAKABNR b - - 3 2
       Fen("b"),
       \* 13: rnbakabnr/9/1c5c1/p1p1p1p1p/9/9/P1P1P1P1P/1C5C1/4K4/RNBA1ABNR b - - 1 1
       Fen("b"),
       \* 14: 4k4/9/9/9/9/4P4/9/C8/3R1R3/4K4 w - - 0 1
       Fen("w"),
       \* 15: 4k4/9/9/9/9/4P4/9/4C4/3R1R3/4K4 b - - 1 1
       Fen("b"),
       \* 16: 4k4/9/9/9/9/4P4/C8/9/3R1R3/4K4 b - - 1 1
       Fen("b"),
       \* 17: 9/4k4/9/9/9/4P4/C8/9/3R1R3/4K4 w - - 2 2
       Fen("w"),
       \* 18: 4k4/3r1r3/c8/9/4p4/9/9/9/9/4K4 b - - 0 1
       Fen("b"),
       \* 19: 4k4/3r1r3/4c4/9/4p4/9/9/9/9/4K4 w - - 1 2
       Fen("w"),
       \* 20: 4k4/3r1r3/9/c8/4p4/9/9/9/9/4K4 w - - 1 2
       Fen("w"),
       \* 21: 4k4/3r1r3/9/c8/4p4/9/9/9/4K4/9 b - - 2 2
       Fen("b"),
       \* 22: 1nbakabnr/9/rc5c1/p1p1p1p1p/9/9/P1P1P1P1P/1C5C1/R8/1NBAKABNR w - - 2 2
       Fen("w"),
       \* 23: 1nbakabnr/9/rc5c1/p1p1p1p1p/9/9/P1P1P1P1P/1C5C1/R7R/1NBAKABN1 b - - 3 2
       Fen("b") >>

XqLegalMoves ==
    <<
       \* 1
       <<"a1a2", "a1a3", "i1i2", "i1i3", "d1e2", "f1e2", "b3b2", "b3a3",
         "b3c3", "b3d3", "b3e3", "b3f3", "b3g3", "b3b4", "b3b5", "b3b6",
         "b3b7", "b3b10", "h3h2", "h3c3", "h3d3", "h3e3", "h3f3", "h3g3",
         "h3i3", "h3h4", "h3h5", "h3h6", "h3h7", "h3h10", "a4a5", "c4c5",
         "e4e5", "g4g5", "i4i5", "b1a3", "b1c3", "h1g3", "h1i3", "c1a3",
         "c1e3", "g1e3", "g1i3", "e1e2">>,
       \* 2
       <<"a10a8", "a10a9", "i10i8", "i10i9", "d10e9", "f10e9", "b8b1",
         "b8b4", "b8b5", "b8b6", "b8b7", "b8a8", "b8c8", "b8d8", "b8e8",
         "b8f8", "b8g8", "b8b9", "h8h1", "h8h4", "h8h5", "h8h6", "h8h7",
         "h8c8", "h8d8", "h8e8", "h8f8", "h8g8", "h8i8", "h8h9", "a7a6",
         "c7c6", "e7e6", "g7g6", "i7i6", "b10a8", "b10c8", "h10g8", "h10i8",
         "c10a8", "c10e8", "g10e8", "g10i8", "e10e9">>,
       \* 3
       <<"i1i2", "i1i3", "a2a1", "a2b2", "a2c2", "a2d2", "a2e2", "a2f2",
         "a2g2", "a2h2", "a2i2", "a2a3", "d1e2", "f1e2", "b3b2", "b3a3",
         "b3c3", "b3d3", "b3e3", "b3f3", "b3g3", "b3b4", "b3b5", "b3b6",
         "b3b7", "b3b10", "h3h2", "h3c3", "h3d3", "h3e3", "h3f3", "h3g3",
         "h3i3", "h3h4", "h3h5", "h3h6", "h3h7", "h3h10", "a4a5", "c4c5",
         "e4e5", "g4g5", "i4i5", "b1a3", "b1c3", "h1g3", "h1i3", "c1a3",
         "c1e3", "g1e3", "g1i3", "e1e2">>,
       \* 4
       <<"a9a8", "a9b9", "a9c9", "a9d9", "a9e9", "a9f9", "a9g9", "a9h9",
         "a9i9", "a9a10", "i10i8", "i10i9", "d10e9", "f10e9", "b8b1",
         "b8b4", "b8b5", "b8b6", "b8b7", "b8a8", "b8c8", "b8d8", "b8e8",
         "b8f8", "b8g8", "b8b9", "h8h1", "h8h4", "h8h5", "h8h6", "h8h7",
         "h8c8", "h8d8", "h8e8", "h8f8", "h8g8", "h8i8", "h8h9", "a7a6",
         "c7c6", "e7e6", "g7g6", "i7i6", "b10a8", "b10c8", "h10g8", "h10i8",
         "c10a8", "c10e8", "g10e8", "g10i8", "e10e9">>,
       \* 5
       <<"a10a8", "a10a9", "i10i8", "i10i9", "i10h10", "d10e9", "e10e9",
         "b8b1", "b8b4", "b8b5", "b8b6", "b8b7", "b8a8", "b8c8", "b8d8",
         "b8e8", "b8f8", "b8g8", "b8b9", "h8h2", "h8h3", "h8h4", "h8h5",
         "h8h6", "h8h7", "h8c8", "h8d8", "h8e8", "h8f8", "h8g8", "h8i8",
         "h8h9", "a7a6", "c7c6", "e7e6", "g7g6", "i7i6", "b10a8", "b10c8",
         "c10a8", "c10e8">>,
       \* 6
       <<"a1a2", "a1a3", "i1i2", "i1i3", "d1e2", "f1e2", "b3b2", "b3a3",
         "b3c3", "b3d3", "b3e3", "b3f3", "b3g3", "b3h3", "b3i3", "b3b4",
         "b3b5", "b3b6", "b3b7", "b3b10", "a4a5", "c4c5", "e4e5", "g4g5",
         "i4i5", "b1a3", "b1c3", "h1g3", "h1i3", "c1a3", "c1e3", "g1e3",
         "g1i3", "e1e2">>,
       \* 7
       <<"a10a8", "a10a9", "i10i8", "i10i9", "d10e9", "f10e9", "b8b1",
         "b8b4", "b8b5", "b8b6", "b8b7", "b8a8", "b8c8", "b8d8", "b8e8",
         "b8f8", "b8g8", "b8b9", "h8h2", "h8h3", "h8h4", "h8h5", "h8h6",
         "h8h7", "h8c8", "h8d8", "h8e8", "h8f8", "h8g8", "h8i8", "h8h9",
         "a7a6", "c7c6", "e7e6", "g7g6", "i7i6", "b10a8", "b10c8", "h10g8",
         "h10i8", "c10a8", "c10e8", "g10e8", "g10i8", "e10e9">>,
       \* 8
       <<"a1a2", "a1a3", "i1i2", "i1i3", "d1e2", "f1e2", "b3b2", "b3a3",
         "b3c3", "b3d3", "b3b4", "b3b5", "b3b6", "b3b7", "b3b10", "e3e2",
         "e3c3", "e3d3", "e3f3", "e3g3", "e3h3", "e3i3", "e3e7", "a4a5",
         "c4c5", "e4e5", "g4g5", "i4i5", "b1a3", "b1c3", "h1g3", "h1i3",
         "c1a3", "g1i3", "e1e2">>,
       \* 9
       <<"a10a8", "a10a9", "i10i8", "i10i9", "i10h10", "e10e9", "g10i8",
         "b8b1", "b8b4", "b8b5", "b8b6", "b8b7", "b8a8", "b8c8", "b8d8",
         "c10a8", "b8f8", "b8b9", "h8h2", "h8h3", "h8h4", "h8h5", "h8h6",
         "h8h7", "h8i8", "h8h9", "h8h10", "a7a6", "c7c6", "g7g6", "i7i6",
         "g8e7", "b10c8", "g8h10", "b10a8">>,
       \* 10
       <<"a10a8", "a10a9", "i10i8", "i10i9", "d10e9", "f10e9", "b8b4",
         "b8b5", "b8b6", "b8b7", "b8a8", "b8c8", "b8d8", "b8e8", "b8f8",
         "b8g8", "b8b9", "h8h1", "h8h4", "h8h5", "h8h6", "h8h7", "h8c8",
         "h8d8", "h8e8", "h8f8", "h8g8", "h8i8", "h8h9", "a7a6", "c7c6",
         "e7e6", "g7g6", "i7i6", "b10a8", "b10c8", "h10g8", "h10i8",
         "c10a8", "c10e8", "g10e8", "g10i8", "e10e9">>,
       \* 11
       <<"a1b1", "a1a2", "a1a3", "i1i2", "i1i3", "d1e2", "f1e2", "b3b1",
         "b3b2", "b3a3", "b3b4", "b3b5", "b3b6", "b3b7", "h3h2", "h3d3",
         "h3e3", "h3f3", "h3g3", "h3i3", "h3h4", "h3h5", "h3h6", "h3h7",
         "h3h10", "a4a5", "c4c5", "e4e5", "g4g5", "i4i5", "h1g3", "h1i3",
         "c3b1", "c3e2", "c1a3", "c1e3", "g1e3", "g1i3", "e1e2">>,
       \* 12
       <<"a10a8", "a10a9", "a10b10", "i10i8", "i10i9", "d10e9", "f10e9",
         "b8b4", "b8b5", "b8b6", "b8b7", "b8a8", "b8b9", "b8b10", "h8h1",
         "h8h4", "h8h5", "h8h6", "h8h7", "h8d8", "h8e8", "h8f8", "h8g8",
         "h8i8", "h8h9", "a7a6", "c7c6", "e7e6", "g7g6", "i7i6", "c8e9",
         "c8b10", "h10g8", "h10i8", "c10a8", "c10e8", "g10e8", "g10i8",
         "e10e9">>,
       \* 13
       <<"a10a8", "a10a9", "i10i8", "i10i9", "d10e9", "f10e9", "b8b1",
         "b8b4", "b8b5", "b8b6", "b8b7", "b8a8", "b8c8", "b8d8", "b8e8",
         "b8f8", "b8g8", "b8b9", "h8h1", "h8h4", "h8h5", "h8h6", "h8h7",
         "h8c8", "h8d8", "h8e8", "h8f8", "h8g8", "h8i8", "h8h9", "a7a6",
         "c7c6", "e7e6", "g7g6", "i7i6", "b10a8", "b10c8", "h10g8", "h10i8",
         "c10a8", "c10e8", "g10e8", "g10i8", "e10e9">>,
       \* 14
       <<"d2d1", "d2a2", "d2b2", "d2c2", "d2e2", "d2d3", "d2d4", "d2d5",
         "d2d6", "d2d7", "d2d8", "d2d9", "d2d10", "f2f1", "f2e2", "f2g2",
         "f2h2", "f2i2", "f2f3", "f2f4", "f2f5", "f2f6", "f2f7", "f2f8",
         "f2f9", "f2f10", "a3a1", "a3a2", "a3b3", "a3c3", "a3d3", "a3e3",
         "a3f3", "a3g3", "a3h3", "a3i3", "a3a4", "a3a5", "a3a6", "a3a7",
         "a3a8", "a3a9", "a3a10", "e5e6", "e1d1", "e1f1", "e1e2">>,
       \* 15
       <<>>,
       \* 16
       <<"e10e9">>,
       \* 17
       <<"d2d1", "d2a2", "d2b2", "d2c2", "d2e2", "d2d3", "d2d4", "d2d5",
         "d2d6", "d2d7", "d2d8", "d2d9", "d2d10", "f2f1", "f2e2", "f2g2",
         "f2h2", "f2i2", "f2f3", "f2f4", "f2f5", "f2f6", "f2f7", "f2f8",
         "f2f9", "f2f10", "a4a1", "a4a2", "a4a3", "a4b4", "a4c4", "a4d4",
         "a4e4", "a4f4", "a4g4", "a4h4", "a4i4", "a4a5", "a4a6", "a4a7",
         "a4a8", "a4a9", "a4a10", "e5e6", "e1d1", "e1f1", "e1e2">>,
       \* 18
       <<"d9d1", "d9d2", "d9d3", "d9d4", "d9d5", "d9d6", "d9d7", "d9d8",
         "d9a9", "d9b9", "d9c9", "d9e9", "d9d10", "f9f1", "f9f2", "f9f3",
         "f9f4", "f9f5", "f9f6", "f9f7", "f9f8", "f9e9", "f9g9", "f9h9",
         "f9i9", "f9f10", "a8a1", "a8a2", "a8a3", "a8a4", "a8a5", "a8a6",
         "a8a7", "a8b8", "a8c8", "a8d8", "a8e8", "a8f8", "a8g8", "a8h8",
         "a8i8", "a8a9", "a8a10", "e6e5", "e10e9", "e10d10", "e10f10">>,
       \* 19
       <<>>,
       \* 20
       <<"e1e2">>,
       \* 21
       <<"d9d1", "d9d2", "d9d3", "d9d4", "d9d5", "d9d6", "d9d7", "d9d8",
         "d9a9", "d9b9", "d9c9", "d9e9", "d9d10", "f9f1", "f9f2", "f9f3",
         "f9f4", "f9f5", "f9f6", "f9f7", "f9f8", "f9e9", "f9g9", "f9h9",
         "f9i9", "f9f10", "a7a1", "a7a2", "a7a3", "a7a4", "a7a5", "a7a6",
         "a7b7", "a7c7", "a7d7", "a7e7", "a7f7", "a7g7", "a7h7", "a7i7",
         "a7a8", "a7a9", "a7a10", "e6e5", "e10e9", "e10d10", "e10f10">>,
       \* 22
       <<"i1i2", "i1i3", "a2a1", "a2b2", "a2c2", "a2d2", "a2e2", "a2f2",
         "a2g2", "a2h2", "a2i2", "a2a3", "d1e2", "f1e2", "b3b2", "b3a3",
         "b3c3", "b3d3", "b3e3", "b3f3", "b3g3", "b3b4", "b3b5", "b3b6",
         "b3b7", "b3b10", "h3h2", "h3c3", "h3d3", "h3e3", "h3f3", "h3g3",
         "h3i3", "h3h4", "h3h5", "h3h6", "h3h7", "h3h10", "a4a5", "c4c5",
         "e4e5", "g4g5", "i4i5", "b1a3", "b1c3", "h1g3", "h1i3", "c1a3",
         "c1e3", "g1e3", "g1i3", "e1e2">>,
       \* 23
       <<"a8a9", "a8a10", "i10i8", "i10i9", "d10e9", "f10e9", "b8b1",
         "b8b4", "b8b5", "b8b6", "b8b7", "b8c8", "b8d8", "b8e8", "b8f8",
         "b8g8", "b8b9", "h8h1", "h8h4", "h8h5", "h8h6", "h8h7", "h8c8",
         "h8d8", "h8e8", "h8f8", "h8g8", "h8i8", "h8h9", "a7a6", "c7c6",
         "e7e6", "g7g6", "i7i6", "b10c8", "h10g8", "h10i8", "c10e8",
         "g10e8", "g10i8", "e10e9">> >>

\* <<fen, move, the fen sf.get_fen gives>>, for the moves the model plays
XqGetFen ==
    {
       <<1, "a1a2", 2>>,
       <<1, "h3e3", 7>>,
       <<1, "h3h10", 5>>,
       <<1, "b1c3", 10>>,
       <<1, "e1e2", 13>>,
       <<2, "a10a8", 22>>,
       <<2, "a10a9", 3>>,
       <<3, "i1i2", 4>>,
       <<5, "i10h10", 6>>,
       <<7, "h10g8", 8>>,
       <<8, "e3e7", 9>>,
       <<10, "b10c8", 11>>,
       <<11, "a1a2", 12>>,
       <<14, "a3e3", 15>>,
       <<14, "a3a4", 16>>,
       <<16, "e10e9", 17>>,
       <<18, "a8a7", 20>>,
       <<18, "a8e8", 19>>,
       <<20, "e1e2", 21>>,
       <<22, "i1i2", 23>> }

XqPositions == 1..Len(XqGraph)

\* sf.start_fen("xiangqi")
sf_start_fen == 1

\* the positions a XiangqiPyffishBoard is constructed on: sf.start_fen and
\* the fen argument of the constructor
XqRoots == {1, 14, 15, 18}

(***************************************************************************)
(* The oracle's read call: in mode "three_arg"                             *)
(* sf.legal_moves(variant, fen, []) returns the moves, in mode             *)
(* "unavailable" it raises.  pyffish.legal_moves takes the move list as a  *)
(* required argument, so in both modes the two-argument call of the        *)
(* wrappers' except branches raises whenever it is reached.  An oracle     *)
(* that accepts only the two-argument call is the mode "two_arg_only"; no  *)
(* board of the specifications runs against it.                            *)
(***************************************************************************)
OracleModes == {"three_arg", "unavailable"}

Ok(v) == [raised |-> FALSE, val |-> v]
Fail == [raised |-> TRUE, val |-> <<>>]

\* sf.legal_moves(variant, fen, [])
sf_legal_moves3(mode, fen) ==
    IF mode = "three_arg" THEN Ok(XqLegalMoves[fen]) ELSE Fail

\* sf.legal_moves(variant, fen)
sf_legal_moves2(mode, fen) ==
    IF mode = "two_arg_only" THEN Ok(XqLegalMoves[fen]) ELSE Fail

\* try: sf.legal_moves(v, fen, [])  except: sf.legal_moves(v, fen)
sf_legal_moves_fallback(mode, fen) ==
    IF sf_legal_moves3(mode, fen).raised THEN sf_legal_moves2(mode, fen)
    ELSE sf_legal_moves3(mode, fen)

\* sf.get_fen(variant, fen, [move]); write_ok = FALSE is a call that raises.
\* The value is 0 for a legal move whose successor lies outside the part of
\* the game tree the model plays in.
sf_get_fen(write_ok, fen, move) ==
    IF write_ok /\ InList(move, XqLegalMoves[fen])
    THEN Ok(IF \E e \in XqGetFen : e[1] = fen /\ e[2] = move
            THEN (CHOOSE e \in XqGetFen : e[1] = fen /\ e[2] = move)[3]
            ELSE 0)
    ELSE [raised |-> TRUE, val |-> fen]

\* the moves of fen the model plays: a legal move with its successor in the
\* graph, or a move that is not legal
sf_in_bound(fen, move) ==
    InList(move, XqLegalMoves[fen]) => sf_get_fen(TRUE, fen, move).val # 0

\* current_fen.split(' ')[1]
fen_side(fen) == XqGraph[fen].side

\* the board part of each FEN of the graph, split at "/": ten ranks, the
\* tenth rank first
XqBoardPart ==
    <<
       \* 1
       <<<<"r", "n", "b", "a", "k", "a", "b", "n", "r">>,
         <<"9">>,
         <<"1", "c", "5", "c", "1">>,
         <<"p", "1", "p", "1", "p", "1", "p", "1", "p">>,
         <<"9">>,
         <<"9">>,
         <<"P", "1", "P", "1", "P", "1", "P", "1", "P">>,
         <<"1", "C", "5", "C", "1">>,
         <<"9">>,
         <<"R", "N", "B", "A", "K", "A", "B", "N", "R">>>>,
       \* 2
       <<<<"r", "n", "b", "a", "k", "a", "b", "n", "r">>,
         <<"9">>,
         <<"1", "c", "5", "c", "1">>,
         <<"p", "1", "p", "1", "p", "1", "p", "1", "p">>,
         <<"9">>,
         <<"9">>,
         <<"P", "1", "P", "1", "P", "1", "P", "1", "P">>,
         <<"1", "C", "5", "C", "1">>,
         <<"R", "8">>,
         <<"1", "N", "B", "A", "K", "A", "B", "N", "R">>>>,
       \* 3
       <<<<"1", "n", "b", "a", "k", "a", "b", "n", "r">>,
         <<"r", "8">>,
         <<"1", "c", "5", "c", "1">>,
         <<"p", "1", "p", "1", "p", "1", "p", "1", "p">>,
         <<"9">>,
         <<"9">>,
         <<"P", "1", "P", "1", "P", "1", "P", "1", "P">>,
         <<"1", "C", "5", "C", "1">>,
         <<"R", "8">>,
         <<"1", "N", "B", "A", "K", "A", "B", "N", "R">>>>,
       \* 4
       <<<<"1", "n", "b", "a", "k", "a", "b", "n", "r">>,
         <<"r", "8">>,
         <<"1", "c", "5", "c", "1">>,
         <<"p", "1", "p", "1", "p", "1", "p", "1", "p">>,
         <<"9">>,
         <<"9">>,
         <<"P", "1", "P", "1", "P", "1", "P", "1", "P">>,
         <<"1", "C", "5", "C", "1">>,
         <<"R", "7", "R">>,
         <<"1", "N", "B", "A", "K", "A", "B", "N", "1">>>>,
       \* 5
       <<<<"r", "n", "b", "a", "k", "a", "b", "C", "r">>,
         <<"9">>,
         <<"1", "c", "5", "c", "1">>,
         <<"p", "1", "p", "1", "p", "1", "p", "1", "p">>,
         <<"9">>,
         <<"9">>,
         <<"P", "1", "P", "1", "P", "1", "P", "1", "P">>,
         <<"1", "C", "7">>,
         <<"9">>,
         <<"R", "N", "B", "A", "K", "A", "B", "N", "R">>>>,
       \* 6
       <<<<"r", "n", "b", "a", "k", "a", "b", "r", "1">>,
         <<"9">>,
         <<"1", "c", "5", "c", "1">>,
         <<"p", "1", "p", "1", "p", "1", "p", "1", "p">>,
         <<"9">>,
         <<"9">>,
         <<"P", "1", "P", "1", "P", "1", "P", "1", "P">>,
         <<"1", "C", "7">>,
         <<"9">>,
         <<"R", "N", "B", "A", "K", "A", "B", "N", "R">>>>,
       \* 7
       <<<<"r", "n", "b", "a", "k", "a", "b", "n", "r">>,
         <<"9">>,
         <<"1", "c", "5", "c", "1">>,
         <<"p", "1", "p", "1", "p", "1", "p", "1", "p">>,
         <<"9">>,
         <<"9">>,
         <<"P", "1", "P", "1", "P", "1", "P", "1", "P">>,
         <<"1", "C", "2", "C", "4">>,
         <<"9">>,
         <<"R", "N", "B", "A", "K", "A", "B", "N", "R">>>>,
       \* 8
       <<<<"r", "n", "b", "a", "k", "a", "b", "1", "r">>,
         <<"9">>,
         <<"1", "c", "4", "n", "c", "1">>,
         <<"p", "1", "p", "1", "p", "1", "p", "1", "p">>,
         <<"9">>,
         <<"9">>,
         <<"P", "1", "P", "1", "P", "1", "P", "1", "P">>,
         <<"1", "C", "2", "C", "4">>,
         <<"9">>,
         <<"R", "N", "B", "A", "K", "A", "B", "N", "R">>>>,
       \* 9
       <<<<"r", "n", "b", "a", "k", "a", "b", "1", "r">>,
         <<"9">>,
         <<"1", "c", "4", "n", "c", "1">>,
         <<"p", "1", "p", "1", "C", "1", "p", "1", "p">>,
         <<"9">>,
         <<"9">>,
         <<"P", "1", "P", "1", "P", "1", "P", "1", "P">>,
         <<"1", "C", "7">>,
         <<"9">>,
         <<"R", "N", "B", "A", "K", "A", "B", "N", "R">>>>,
       \* 10
       <<<<"r", "n", "b", "a", "k", "a", "b", "n", "r">>,
         <<"9">>,
         <<"1", "c", "5", "c", "1">>,
         <<"p", "1", "p", "1", "p", "1", "p", "1", "p">>,
         <<"9">>,
         <<"9">>,
         <<"P", "1", "P", "1", "P", "1", "P", "1", "P">>,
         <<"1", "C", "N", "4", "C", "1">>,
         <<"9">>,
         <<"R", "1", "B", "A", "K", "A", "B", "N", "R">>>>,
       \* 11
       <<<<"r", "1", "b", "a", "k", "a", "b", "n", "r">>,
         <<"9">>,
         <<"1", "c", "n", "4", "c", "1">>,
         <<"p", "1", "p", "1", "p", "1", "p", "1", "p">>,
         <<"9">>,
         <<"9">>,
         <<"P", "1", "P", "1", "P", "1", "P", "1", "P">>,
         <<"1", "C", "N", "4", "C", "1">>,
         <<"9">>,
         <<"R", "1", "B", "A", "K", "A", "B", "N", "R">>>>,
       \* 12
       <<<<"r", "1", "b", "a", "k", "a", "b", "n", "r">>,
         <<"9">>,
         <<"1", "c", "n", "4", "c", "1">>,
         <<"p", "1", "p", "1", "p", "1", "p", "1", "p">>,
         <<"9">>,
         <<"9">>,
         <<"P", "1", "P", "1", "P", "1", "P", "1", "P">>,
         <<"1", "C", "N", "4", "C", "1">>,
         <<"R", "8">>,
         <<"2", "B", "A", "K", "A", "B", "N", "R">>>>,
       \* 13
       <<<<"r", "n", "b", "a", "k", "a", "b", "n", "r">>,
         <<"9">>,
         <<"1", "c", "5", "c", "1">>,
         <<"p", "1", "p", "1", "p", "1", "p", "1", "p">>,
         <<"9">>,
         <<"9">>,
         <<"P", "1", "P", "1", "P", "1", "P", "1", "P">>,
         <<"1", "C", "5", "C", "1">>,
         <<"4", "K", "4">>,
         <<"R", "N", "B", "A", "1", "A", "B", "N", "R">>>>,
       \* 14
       <<<<"4", "k", "4">>,
         <<"9">>,
         <<"9">>,
         <<"9">>,
         <<"9">>,
         <<"4", "P", "4">>,
         <<"9">>,
         <<"C", "8">>,
         <<"3", "R", "1", "R", "3">>,
         <<"4", "K", "4">>>>,
       \* 15
       <<<<"4", "k", "4">>,
         <<"9">>,
         <<"9">>,
         <<"9">>,
         <<"9">>,
         <<"4", "P", "4">>,
         <<"9">>,
         <<"4", "C", "4">>,
         <<"3", "R", "1", "R", "3">>,
         <<"4", "K", "4">>>>,
       \* 16
       <<<<"4", "k", "4">>,
         <<"9">>,
         <<"9">>,
         <<"9">>,
         <<"9">>,
         <<"4", "P", "4">>,
         <<"C", "8">>,
         <<"9">>,
         <<"3", "R", "1", "R", "3">>,
         <<"4", "K", "4">>>>,
       \* 17
       <<<<"9">>,
         <<"4", "k", "4">>,
         <<"9">>,
         <<"9">>,
         <<"9">>,
         <<"4", "P", "4">>,
         <<"C", "8">>,
         <<"9">>,
         <<"3", "R", "1", "R", "3">>,
         <<"4", "K", "4">>>>,
       \* 18
       <<<<"4", "k", "4">>,
         <<"3", "r", "1", "r", "3">>,
         <<"c", "8">>,
         <<"9">>,
         <<"4", "p", "4">>,
         <<"9">>,
         <<"9">>,
         <<"9">>,
         <<"9">>,
         <<"4", "K", "4">>>>,
       \* 19
       <<<<"4", "k", "4">>,
         <<"3", "r", "1", "r", "3">>,
         <<"4", "c", "4">>,
         <<"9">>,
         <<"4", "p", "4">>,
         <<"9">>,
         <<"9">>,
         <<"9">>,
         <<"9">>,
         <<"4", "K", "4">>>>,
       \* 20
       <<<<"4", "k", "4">>,
         <<"3", "r", "1", "r", "3">>,
         <<"9">>,
         <<"c", "8">>,
         <<"4", "p", "4">>,
         <<"9">>,
         <<"9">>,
         <<"9">>,
         <<"9">>,
         <<"4", "K", "4">>>>,
       \* 21
       <<<<"4", "k", "4">>,
         <<"3", "r", "1", "r", "3">>,
         <<"9">>,
         <<"c", "8">>,
         <<"4", "p", "4">>,
         <<"9">>,
         <<"9">>,
         <<"9">>,
         <<"4", "K", "4">>,
         <<"9">>>>,
       \* 22
       <<<<"1", "n", "b", "a", "k", "a", "b", "n", "r">>,
         <<"9">>,
         <<"r", "c", "5", "c", "1">>,
         <<"p", "1", "p", "1", "p", "1", "p", "1", "p">>,
         <<"9">>,
         <<"9">>,
         <<"P", "1", "P", "1", "P", "1", "P", "1", "P">>,
         <<"1", "C", "5", "C", "1">>,
         <<"R", "8">>,
         <<"1", "N", "B", "A", "K", "A", "B", "N", "R">>>>,
       \* 23
       <<<<"1", "n", "b", "a", "k", "a", "b", "n", "r">>,
         <<"9">>,
         <<"r", "c", "5", "c", "1">>,
         <<"p", "1", "p", "1", "p", "1", "p", "1", "p">>,
         <<"9">>,
         <<"9">>,
         <<"P", "1", "P", "1", "P", "1", "P", "1", "P">>,
         <<"1", "C", "5", "C", "1">>,
         <<"R", "7", "R">>,
         <<"1", "N", "B", "A", "K", "A", "B", "N", "1">>>> >>

\* current_fen.split(' ')[0].split('/')
fen_ranks(fen) == XqBoardPart[fen]

(***************************************************************************)
(* XiangqiPyffishBoard (game/xiangqi_pyffish_board.py).  A                 *)
(* XiangqiPyffishMove is its move_str.                                     *)
(***************************************************************************)
XiangqiPyffishBoard(fen) ==
    [variant |-> "XiangqiPyffishBoard", current_fen |-> fen,
     move_history |-> <<>>, result |-> None]

XiangqiPyffishBoard_reset(b) ==
    [b EXCEPT !.current_fen = sf_start_fen, !.move_history = <<>>, !.result = None]

\* [raised, val]: the fallback call's exception is not caught
XiangqiPyffishBoard_get_legal_moves(b, player, mode) ==
    IF player # None /\ player # Some(fen_side(b.current_fen) = "w") THEN Ok(<<>>)
    ELSE sf_legal_moves_fallback(mode, b.current_fen)

Pop(list) == SubSeq(list, 1, Len(list) - 1)

\* apply_move that records the move before it checks that it is legal
XiangqiPyffishBoard_apply_move_append_first(b, move, mode, write_ok) ==
    LET legal_moves == sf_legal_moves_fallback(mode, b.current_fen)
        b1 == [b EXCEPT !.move_history = Append(@, move)]
    IN
    IF legal_moves.raised THEN Raise(b, "OracleError")
    ELSE IF ~InList(move, legal_moves.val) THEN Raise(b1, "ValueError")
    ELSE LET new_fen == sf_get_fen(write_ok, b.current_fen, move)
         IN IF new_fen.raised
            THEN Raise([b1 EXCEPT !.move_history = Pop(@)], "ValueError")
            ELSE LET b2 == [b1 EXCEPT !.current_fen = new_fen.val]
                     next_legal_moves == sf_legal_moves_fallback(mode, b2.current_fen)
                 IN IF next_legal_moves.raised THEN Return(b2, 0, FALSE)
                    ELSE IF Len(next_legal_moves.val) = 0
                    THEN LET prev_player == fen_side(b2.current_fen) # "w"
                             b3 == [b2 EXCEPT !.result =
                                      Some([winner |-> IF prev_player THEN "red" ELSE "black",
                                            termination |-> "checkmate"])]
                         IN Return(b3, IF prev_player THEN 1 ELSE -1, TRUE)
                    ELSE Return(b2, 0, FALSE)

\* apply_move whose except branch re-raises without move_history.pop()
XiangqiPyffishBoard_apply_move_no_pop(b, move, mode, write_ok) ==
    LET legal_moves == sf_legal_moves_fallback(mode, b.current_fen) IN
    IF legal_moves.raised THEN Raise(b, "OracleError")
    ELSE IF ~InList(move, legal_moves.val) THEN Raise(b, "ValueError")
    ELSE LET b1 == [b EXCEPT !.move_history = Append(@, move)]
             new_fen == sf_get_fen(write_ok, b.current_fen, move)
         IN IF new_fen.raised
            THEN Raise(b1, "ValueError")
            ELSE LET b2 == [b1 EXCEPT !.current_fen = new_fen.val]
                     next_legal_moves == sf_legal_moves_fallback(mode, b2.current_fen)
                 IN IF next_legal_moves.raised THEN Return(b2, 0, FALSE)
                    ELSE IF Len(next_legal_moves.val) = 0
                    THEN LET prev_player == fen_side(b2.current_fen) # "w"
                             b3 == [b2 EXCEPT !.result =
                                      Some([winner |-> IF prev_player THEN "red" ELSE "black",
                                            termination |-> "checkmate"])]
                         IN Return(b3, IF prev_player THEN 1 ELSE -1, TRUE)
                    ELSE Return(b2, 0, FALSE)

XiangqiPyffishBoard_apply_move(b, move, mode, write_ok) ==
    LET legal_moves == sf_legal_moves_fallback(mode, b.current_fen) IN
    IF legal_moves.raised THEN Raise(b, "OracleError")
    ELSE IF ~InList(move, legal_moves.val) THEN Raise(b, "ValueError")
    ELSE LET b1 == [b EXCEPT !.move_history = Append(@, move)]
             new_fen == sf_get_fen(write_ok, b.current_fen, move)
         IN IF new_fen.raised
            THEN Raise([b1 EXCEPT !.move_history = Pop(@)], "ValueError")
            ELSE LET b2 == [b1 EXCEPT !.current_fen = new_fen.val]
                     next_legal_moves == sf_legal_moves_fallback(mode, b2.current_fen)
                 IN IF next_legal_moves.raised THEN Return(b2, 0, FALSE)
                    ELSE IF Len(next_legal_moves.val) = 0
                    THEN LET prev_player == fen_side(b2.current_fen) # "w"
                             b3 == [b2 EXCEPT !.result =
                                      Some([winner |-> IF prev_player THEN "red" ELSE "black",
                                            termination |-> "checkmate"])]
                         IN Return(b3, IF prev_player THEN 1 ELSE -1, TRUE)
                    ELSE Return(b2, 0, FALSE)

\* only the three-argument call is tried here
XiangqiPyffishBoard_is_game_over(b, mode) ==
    IF sf_legal_moves3(mode, b.current_fen).raised THEN FALSE
    ELSE Len(sf_legal_moves3(mode, b.current_fen).val) = 0

XiangqiPyffishBoard_get_state_hash(b) == b.current_fen

\* the dict get_result returns for a stored result: its values are strings
\* here and None while the game is live, so both are options
XiangqiPyffishBoard_result_dict(result) ==
    [winner |-> Some(result.winner), termination |-> Some(result.termination)]

\* [b, ret]: get_result stores the result it computes when none is stored;
\* reading the side field of a FEN the oracle accepted does not fail, so
\* the except branch ('draw', 'unknown') is never taken
XiangqiPyffishBoard_get_result(b, mode) ==
    IF ~XiangqiPyffishBoard_is_game_over(b, mode)
    THEN [b |-> b, ret |-> <<[winner |-> None, termination |-> None]>>]
    ELSE IF b.result # None
    THEN [b |-> b, ret |-> <<XiangqiPyffishBoard_result_dict(b.result[1])>>]
    ELSE [b |-> [b EXCEPT !.result =
                    Some([winner |-> IF fen_side(b.current_fen) = "w"
                                     THEN "black" ELSE "red",
                          termination |-> "checkmate"])],
          ret |-> <<[winner |-> Some(IF fen_side(b.current_fen) = "w"
                                     THEN "black" ELSE "red"),
                     termination |-> Some("checkmate")]>>]

(***************************************************************************)
(* XiangqiBoard (game/xiangqi_board.py): the native 10 x 9 grid.  Red      *)
(* pieces are positive, Black negative, 0 is an empty cell.                *)
(***************************************************************************)
GENERAL == 1
ADVISOR == 2
ELEPHANT == 3
HORSE == 4
CHARIOT == 5
CANNON == 6
SOLDIER == 7

BOARD_WIDTH == 9
BOARD_HEIGHT == 10
NUM_PIECE_TYPES == 7

BackRank == <<CHARIOT, HORSE, ELEPHANT, ADVISOR, GENERAL, ADVISOR, ELEPHANT, HORSE, CHARIOT>>

_setup_initial_position ==
    [rc \in (0..BOARD_HEIGHT - 1) \X (0..BOARD_WIDTH - 1) |->
        LET r == rc[1]
            c == rc[2]
        IN CASE r = 0 -> BackRank[c + 1]
             [] r = 2 /\ c \in {1, 7} -> CANNON
             [] r = 3 /\ c \in {0, 2, 4, 6, 8} -> SOLDIER
             [] r = 9 -> -BackRank[c + 1]
             [] r = 7 /\ c \in {1, 7} -> -CANNON
             [] r = 6 /\ c \in {0, 2, 4, 6, 8} -> -SOLDIER
             [] OTHER -> 0]

XiangqiMove(from_pos, to_pos, piece_type, piece_color) ==
    [from_pos |-> from_pos, to_pos |-> to_pos,
     piece_type |-> piece_type, piece_color |-> piece_color]

XiangqiBoard ==
    [variant |-> "XiangqiBoard", board |-> _setup_initial_position,
     move_history |-> <<>>, current_player |-> RED, result |-> None,
     halfmove_clock |-> 0]

XiangqiBoard_reset(b) ==
    [b EXCEPT !.board = _setup_initial_position, !.move_history = <<>>,
              !.current_player = RED, !.result = None, !.halfmove_clock = 0]

\* the move generator is a stub: the list is empty for either player
XiangqiBoard_get_legal_moves(b, player) ==
    IF player # None /\ player # Some(b.current_player) THEN <<>>
    ELSE <<>>

XiangqiBoard_apply_move(b, move) ==
    IF ~InList(move, XiangqiBoard_get_legal_moves(b, None)) THEN Raise(b, "ValueError")
    ELSE LET piece == b.board[move.from_pos]
             b1 == [b EXCEPT !.board = [@ EXCEPT ![move.to_pos] = piece,
                                                 ![move.from_pos] = 0],
                             !.move_history = Append(@, move),
                             !.current_player = ~@]
         IN Return(b1, 0, FALSE)

XiangqiBoard_is_game_over(b) == FALSE

\* str(self.board.tolist()) + f"|{self.current_player}"
XiangqiBoard_get_state_hash(b) == <<b.board, b.current_player>>

XiangqiBoard_get_result(b) ==
    IF ~XiangqiBoard_is_game_over(b) THEN <<>>
    ELSE <<[winner |-> None, termination |-> "UNKNOWN", moves |-> Len(b.move_history)]>>


(***************************************************************************)
(* to_observation of the two Xiangqi boards.  An observation is the set of *)
(* the (plane, row, col) whose entry is 1.0.                               *)
(***************************************************************************)
\* PIECE_MAPPING: FEN character to (piece_type, is_red)
PIECE_MAPPING ==
    [c \in {"P", "N", "B", "A", "R", "C", "K", "p", "n", "b", "a", "r", "c", "k"} |->
        <<CASE lower(c) = "p" -> 0 [] lower(c) = "n" -> 1 [] lower(c) = "b" -> 2
            [] lower(c) = "a" -> 3 [] lower(c) = "r" -> 4 [] lower(c) = "c" -> 5
            [] lower(c) = "k" -> 6,
          c # lower(c)>>]

\* plane_idx = piece_type if is_red else piece_type + self.NUM_PIECE_TYPES
XiangqiPyffishBoard_plane_idx(piece_type, is_red) ==
    IF is_red THEN piece_type ELSE piece_type + NUM_PIECE_TYPES

\* rank_planes that writes every piece of a rank at file 0
XiangqiPyffishBoard_rank_planes_first_file(rank, rank_idx) ==
    {<<XiangqiPyffishBoard_plane_idx(PIECE_MAPPING[cell[2]][1], PIECE_MAPPING[cell[2]][2]),
       rank_idx, 0>> :
        cell \in {x \in ScanRank(rank, 1, 0) : x[2] \in DOMAIN PIECE_MAPPING}}

\* the entries one rank of the FEN sets; a character outside PIECE_MAPPING
\* sets none
XiangqiPyffishBoard_rank_planes(rank, rank_idx) ==
    {<<XiangqiPyffishBoard_plane_idx(PIECE_MAPPING[cell[2]][1], PIECE_MAPPING[cell[2]][2]),
       rank_idx, cell[1]>> :
        cell \in {x \in ScanRank(rank, 1, 0) : x[2] \in DOMAIN PIECE_MAPPING}}

XiangqiPyffishBoard_to_observation(b) ==
    UNION {XiangqiPyffishBoard_rank_planes(fen_ranks(b.current_fen)[rank_idx + 1], rank_idx) :
               rank_idx \in 0..(Len(fen_ranks(b.current_fen)) - 1)}

\* plane_idx = piece_type - 1 if color else piece_type + 6, with
\* piece_type = abs(piece) and color = piece > 0
XiangqiBoard_plane_idx(piece) ==
    IF piece > 0 THEN piece - 1 ELSE (0 - piece) + 6

XiangqiBoard_to_observation(b) ==
    {<<XiangqiBoard_plane_idx(b.board[rc]), rc[1], rc[2]>> :
        rc \in {x \in DOMAIN b.board : b.board[x] # 0}}

(***************************************************************************)
(* The Board contract, dispatched on the concrete variant.                 *)
(***************************************************************************)
Board_reset(b) ==
    CASE b.variant = "ChessBoard" -> ChessBoard_reset(b)
      [] b.variant = "XiangqiPyffishBoard" -> XiangqiPyffishBoard_reset(b)
      [] b.variant = "XiangqiBoard" -> XiangqiBoard_reset(b)

Board_apply_move(b, move, mode, write_ok) ==
    CASE b.variant = "ChessBoard" -> ChessBoard_apply_move(b, move)
      [] b.variant = "XiangqiPyffishBoard" ->
             XiangqiPyffishBoard_apply_move(b, move, mode, write_ok)
      [] b.variant = "XiangqiBoard" -> XiangqiBoard_apply_move(b, move)

\* get_legal_moves(): [raised, val]
Board_get_legal_moves(b, mode) ==
    CASE b.variant = "ChessBoard" -> Ok(ChessBoard_get_legal_moves(b, None))
      [] b.variant = "XiangqiPyffishBoard" ->
             XiangqiPyffishBoard_get_legal_moves(b, None, mode)
      [] b.variant = "XiangqiBoard" -> Ok(XiangqiBoard_get_legal_moves(b, None))

Board_is_game_over(b, mode) ==
    CASE b.variant = "ChessBoard" -> ChessBoard_is_game_over(b)
      [] b.variant = "XiangqiPyffishBoard" -> XiangqiPyffishBoard_is_game_over(b, mode)
      [] b.variant = "XiangqiBoard" -> XiangqiBoard_is_game_over(b)

Board_get_state_hash(b) ==
    CASE b.variant = "ChessBoard" -> Some(ChessBoard_get_state_hash(b))
      [] b.variant = "XiangqiPyffishBoard" -> Some(XiangqiPyffishBoard_get_state_hash(b))
      [] b.variant = "XiangqiBoard" -> Some(XiangqiBoard_get_state_hash(b))

Board_to_observation(b) ==
    CASE b.variant = "ChessBoard" -> ChessBoard_to_observation(b)
      [] b.variant = "XiangqiPyffishBoard" -> XiangqiPyffishBoard_to_observation(b)
      [] b.variant = "XiangqiBoard" -> XiangqiBoard_to_observation(b)

\* get_legal_moves(player): [raised, val]
Board_get_legal_moves_for(b, player, mode) ==
    CASE b.variant = "ChessBoard" -> Ok(ChessBoard_get_legal_moves(b, player))
      [] b.variant = "XiangqiPyffishBoard" ->
             XiangqiPyffishBoard_get_legal_moves(b, player, mode)
      [] b.variant = "XiangqiBoard" -> Ok(XiangqiBoard_get_legal_moves(b, player))

\* get_result(): [b, ret]
Board_get_result(b, mode) ==
    CASE b.variant = "ChessBoard" -> [b |-> b, ret |-> ChessBoard_get_result(b)]
      [] b.variant = "XiangqiPyffishBoard" -> XiangqiPyffishBoard_get_result(b, mode)
      [] b.variant = "XiangqiBoard" -> [b |-> b, ret |-> XiangqiBoard_get_result(b)]

\* the side to move: TRUE is the first player (White, Red)
side_to_move(b) ==
    CASE b.variant = "ChessBoard" -> chess_turn(b.board)
      [] b.variant = "XiangqiPyffishBoard" -> fen_side(b.current_fen) = "w"
      [] b.variant = "XiangqiBoard" -> b.current_player

(***************************************************************************)
(* Callers' inputs: every move the model plays somewhere in the oracle's   *)
(* graph and one move that is legal nowhere.  A call is in bound when its  *)
(* move is not legal in the position, or is legal and played by the model. *)
(***************************************************************************)
SeqRange(list) == {list[i] : i \in 1..Len(list)}

ChessMoveInputs == {chess_Move(e[2]) : e \in ChessPush} \cup {Mv(12, 36)}

XqMoveInputs == {e[2] : e \in XqGetFen} \cup {"a1a9"}

Board_in_bound(b, move) ==
    CASE b.variant = "ChessBoard" -> chess_in_bound(b.board, move)
      [] b.variant \in {"XiangqiPyffishBoard", "SimpleXiangqiBoard"} ->
             sf_in_bound(b.current_fen, move)
      [] b.variant = "XiangqiBoard" -> TRUE

XiangqiMoveInputs ==
    {XiangqiMove(<<3, 0>>, <<4, 0>>, SOLDIER, RED),
     XiangqiMove(<<6, 0>>, <<5, 0>>, SOLDIER, ~RED)}

MoveInputs(b) ==
    CASE b.variant = "ChessBoard" -> ChessMoveInputs
      [] b.variant = "XiangqiPyffishBoard" -> XqMoveInputs
      [] b.variant = "XiangqiBoard" -> XiangqiMoveInputs

(***************************************************************************)
(* Spec: one board of any variant, constructed from any position, driven   *)
(* by reset, apply_move and the read operations.  last is the last call    *)
(* and what it returned;                                                   *)
(* ghost counts the applied moves since construction or the last reset.    *)
(***************************************************************************)
Called(op, arg, r, mover) ==
    [op |-> op, arg |-> arg, raised |-> r.raised, reward |-> r.reward,
     done |-> r.done, mover |-> mover]

Fresh(b) == [init_side |-> side_to_move(b), applied |-> 0, applied_moves |-> <<>>]

Init ==
    /\ board \in {ChessBoard(f) : f \in ChessRoots}
                 \cup {XiangqiPyffishBoard(f) : f \in XqRoots}
                 \cup {XiangqiBoard}
    /\ oracle \in IF board.variant = "XiangqiPyffishBoard" THEN OracleModes
                  ELSE {"three_arg"}
    /\ env = None
    /\ last = Called("init", None, Return(board, 0, FALSE), side_to_move(board))
    /\ ghost = Fresh(board)

Reset ==
    /\ board' = Board_reset(board)
    /\ last' = Called("reset", None, Return(board', 0, FALSE), side_to_move(board))
    /\ ghost' = Fresh(board')
    /\ UNCHANGED <<oracle, env>>

ApplyMove ==
    /\ Len(board.move_history) < MaxPly
    /\ \E move \in MoveInputs(board), write_ok \in BOOLEAN :
          LET r == Board_apply_move(board, move, oracle, write_ok) IN
          /\ Board_in_bound(board, move)
          /\ board' = r.b
          /\ last' = Called("apply_move", Some(move), r, side_to_move(board))
          /\ ghost' = IF r.raised = "none"
                      THEN [ghost EXCEPT !.applied = @ + 1,
                                         !.applied_moves = Append(@, move)]
                      ELSE ghost
    /\ UNCHANGED <<oracle, env>>

\* a call of a read operation and what it returned
Read(op, arg, raised, ret, mover) ==
    [op |-> op, arg |-> arg, raised |-> raised, reward |-> 0, done |-> FALSE,
     mover |-> mover, ret |-> ret]

IsGameOver ==
    /\ last' = Read("is_game_over", None, "none", Board_is_game_over(board, oracle),
                    side_to_move(board))
    /\ UNCHANGED <<board, oracle, env, ghost>>

GetResult ==
    /\ board' = Board_get_result(board, oracle).b
    /\ last' = Read("get_result", None, "none", Board_get_result(board, oracle).ret,
                    side_to_move(board))
    /\ UNCHANGED <<oracle, env, ghost>>

PlayerInputs == {None, Some(TRUE), Some(FALSE)}

GetLegalMoves ==
    /\ \E player \in PlayerInputs :
          last' = Read("get_legal_moves", player,
                       IF Board_get_legal_moves_for(board, player, oracle).raised
                       THEN "OracleError" ELSE "none",
                       Board_get_legal_moves_for(board, player, oracle).val,
                       side_to_move(board))
    /\ UNCHANGED <<board, oracle, env, ghost>>

ToObservation ==
    /\ last' = Read("to_observation", None, "none", Board_to_observation(board),
                    side_to_move(board))
    /\ UNCHANGED <<board, oracle, env, ghost>>

GetStateHash ==
    /\ last' = Read("get_state_hash", None, "none", Board_get_state_hash(board),
                    side_to_move(board))
    /\ UNCHANGED <<board, oracle, env, ghost>>

Next ==
    \/ Reset
    \/ ApplyMove
    \/ IsGameOver
    \/ GetResult
    \/ GetLegalMoves
    \/ ToObservation
    \/ GetStateHash

Spec == Init /\ [][Next]_vars


(***************************************************************************)
(* Claims about the boards, checked under Spec.                            *)
(***************************************************************************)

\* C1: after N apply_move calls that returned normally since construction
\* or reset, the side to move is the initial side when N is even and the
\* other side when N is odd; a rejected call, which leaves N alone, does
\* not flip the side.
C1_TurnAlternation ==
    side_to_move(board) = IF ghost.applied % 2 = 0 THEN ghost.init_side
                          ELSE ~ghost.init_side

\* a rejected call after an odd number of applied moves
C1_Witness ==
    /\ ghost.applied = 3
    /\ last.op = "apply_move"
    /\ last.raised = "ValueError"

\* what get_legal_moves() returns for b, when it returns
LegalNow(b) == Board_get_legal_moves(b, oracle)

\* C2: an apply_move call with a move that is not in the current
\* get_legal_moves() result raises the illegal-move error (ValueError) and
\* leaves get_state_hash(), move_history and the stored result as they were.
C2_IllegalMoveImmutable ==
    [][(/\ last'.op = "apply_move"
        /\ ~LegalNow(board).raised
        /\ ~InList(last'.arg[1], LegalNow(board).val))
       => (/\ last'.raised = "ValueError"
           /\ Board_get_state_hash(board') = Board_get_state_hash(board)
           /\ board'.move_history = board.move_history
           /\ board'.result = board.result)]_vars

\* an illegal move was rejected on a board that has moves in its history
C2_Witness ==
    /\ last.op = "apply_move"
    /\ last.raised = "ValueError"
    /\ ~LegalNow(board).raised
    /\ ~InList(last.arg[1], LegalNow(board).val)
    /\ Len(board.move_history) >= 2

\* C3 as claimed: once is_game_over() is true, for whatever reason, every
\* apply_move call is rejected and get_state_hash() stays as it was.
C3_NoMoveAfterGameOver ==
    [][(Board_is_game_over(board, oracle) /\ last'.op = "apply_move")
       => (/\ last'.raised # "none"
           /\ Board_get_state_hash(board') = Board_get_state_hash(board))]_vars

\* the winner by the rules, in the position b holds: chess.Board.outcome()
\* for chess; in Xiangqi the side that cannot move has lost
Winner(b) ==
    CASE b.variant = "ChessBoard" ->
             IF chess_outcome(b.board) = None THEN None
             ELSE chess_outcome(b.board)[1].winner
      [] b.variant = "XiangqiPyffishBoard" ->
             IF Len(XqLegalMoves[b.current_fen]) = 0
             THEN Some(fen_side(b.current_fen) # "w") ELSE None
      [] b.variant = "XiangqiBoard" -> None

\* C4 as claimed: a move that ends the game with the mover as the winner
\* returns reward +1 whichever colour moved; -1 is returned only when the
\* mover lost; an ongoing game or a draw returns 0.
C4_MoverRelativeReward ==
    (last.op = "apply_move" /\ last.raised = "none")
    => /\ (last.done /\ Winner(board) = Some(last.mover)) => last.reward = 1
       /\ last.reward = -1 => Winner(board) = Some(~last.mover)
       /\ (~last.done \/ Winner(board) = None) => last.reward = 0

\* C5: move_history is the list of the moves of the apply_move calls that
\* returned normally since construction or reset, in order; rejected
\* moves and moves whose oracle application failed are not in it.
C5_HistoryIsAppliedMoves ==
    /\ board.move_history = ghost.applied_moves
    /\ Len(board.move_history) = ghost.applied

\* the oracle failed to apply a legal move on a board with two moves applied
C5_Witness ==
    /\ board.variant = "XiangqiPyffishBoard"
    /\ ghost.applied = 2
    /\ last.op = "apply_move"
    /\ last.raised = "ValueError"
    /\ InList(last.arg[1], XqLegalMoves[board.current_fen])


(***************************************************************************)
(* Environments (environments/chess_env.py, environments/xiangqi_env.py).  *)
(* An action mask is the set of the indices whose entry is 1.  An info     *)
(* dict's "result" is None when the key is absent.  get_result() is the    *)
(* empty tuple for {} and a one-element tuple for a filled dict.           *)
(***************************************************************************)

\* Python's list[i]: a negative i counts from the end
PyIndex(list, i) ==
    IF 0 <= i /\ i < Len(list) THEN Ok(list[i + 1])
    ELSE IF -Len(list) <= i /\ i < 0 THEN Ok(list[Len(list) + i + 1])
    ELSE Fail

\* list(range(n))
PyRange(n) == [i \in 1..n |-> i - 1]

\* list.index(x): the first position of x
ListIndex(list, x) ==
    IF InList(x, list)
    THEN [raised |-> FALSE,
          val |-> (CHOOSE i \in 1..Len(list) :
                      list[i] = x /\ \A j \in 1..(i - 1) : list[j] # x) - 1]
    ELSE [raised |-> TRUE, val |-> 0]

CHESS_CELLS == 64
XIANGQI_CELLS == 90

\* rng is the seed self.rng was last built with; None is random.Random(),
\* which seeds itself
ChessEnv(max_steps) ==
    [game |-> "ChessEnv", board |-> ChessBoard(CHESS_START), max_steps |-> max_steps,
     steps |-> 0, current_player |-> WHITE, rng |-> None]

\* seed that also restarts the step count
ChessEnv_seed_restarts_steps(e, seed) == [e EXCEPT !.rng = seed, !.steps = 0]

ChessEnv_seed(e, seed) == [e EXCEPT !.rng = seed]

\* legal-move indices that run one past the last legal move
ChessEnv__get_legal_move_indices_one_more(e) ==
    PyRange(Len(ChessBoard_get_legal_moves(e.board, None)) + 1)

ChessEnv__get_legal_move_indices(e) ==
    PyRange(Len(ChessBoard_get_legal_moves(e.board, None)))

\* an action mask indexed with the board's width instead of its cell count
ChessEnv__get_action_mask_by_width(e) ==
    {move.from_square * 8 + move.to_square :
        move \in SeqRange(ChessBoard_get_legal_moves(e.board, None))}

ChessEnv__get_action_mask(e) ==
    {move.from_square * CHESS_CELLS + move.to_square :
        move \in SeqRange(ChessBoard_get_legal_moves(e.board, None))}

ChessEnv_info(e, turn) ==
    [legal_moves |-> ChessEnv__get_legal_move_indices(e),
     action_mask |-> ChessEnv__get_action_mask(e),
     turn |-> turn,
     result |-> None]

EnvRaise(e, err) ==
    [e |-> e, raised |-> err, reward |-> 0, terminated |-> FALSE, truncated |-> FALSE,
     info |-> None]
EnvReturn(e, reward, terminated, truncated, info) ==
    [e |-> e, raised |-> "none", reward |-> reward, terminated |-> terminated,
     truncated |-> truncated, info |-> Some(info)]

\* reset that leaves the step counter where it was
ChessEnv_reset_keeps_steps(e, seed) ==
    LET e0 == IF seed # None THEN ChessEnv_seed(e, seed) ELSE e
        e1 == [e0 EXCEPT !.board = ChessBoard_reset(@), !.current_player = WHITE]
    IN EnvReturn(e1, 0, FALSE, FALSE, ChessEnv_info(e1, "white"))

\* reset that resets the board only when a seed is given
ChessEnv_reset_board_when_seeded(e, seed) ==
    LET e0 == IF seed # None THEN ChessEnv_seed(e, seed) ELSE e
        e1 == [e0 EXCEPT !.board = IF seed # None THEN ChessBoard_reset(@) ELSE @,
                         !.steps = 0, !.current_player = WHITE]
    IN EnvReturn(e1, 0, FALSE, FALSE, ChessEnv_info(e1, "white"))

ChessEnv_reset(e, seed) ==
    LET e0 == IF seed # None THEN ChessEnv_seed(e, seed) ELSE e
        e1 == [e0 EXCEPT !.board = ChessBoard_reset(@), !.steps = 0,
                         !.current_player = WHITE]
    IN EnvReturn(e1, 0, FALSE, FALSE, ChessEnv_info(e1, "white"))

\* step that truncates one step late: steps > max_steps
ChessEnv_step_finish_late(e1, reward, terminated) ==
    EnvReturn(e1, reward, terminated, e1.steps > e1.max_steps,
              [ChessEnv_info(e1, IF chess_turn(e1.board.board) THEN "white" ELSE "black")
                  EXCEPT !.result = IF terminated
                                    THEN Some(ChessBoard_get_result(e1.board))
                                    ELSE None])

\* step, after apply_move returned (reward, game_over): the counter, the
\* player switch, the flags and the info dict
ChessEnv_step_finish(e1, reward, terminated) ==
    EnvReturn(e1, reward, terminated, e1.steps >= e1.max_steps,
              [ChessEnv_info(e1, IF chess_turn(e1.board.board) THEN "white" ELSE "black")
                  EXCEPT !.result = IF terminated
                                    THEN Some(ChessBoard_get_result(e1.board))
                                    ELSE None])

\* step that leaves current_player as it was
ChessEnv_step_apply_same_player(e, r) ==
    IF r.raised # "none" THEN EnvRaise(e, r.raised)
    ELSE ChessEnv_step_finish([e EXCEPT !.board = r.b, !.steps = @ + 1],
                              r.reward, r.done)

\* step, from self.board.apply_move(move) on; r is what apply_move did
ChessEnv_step_apply(e, r) ==
    IF r.raised # "none" THEN EnvRaise(e, r.raised)
    ELSE ChessEnv_step_finish([e EXCEPT !.board = r.b, !.steps = @ + 1,
                                        !.current_player = ~@],
                              r.reward, r.done)

\* step, from move = legal_moves[action] on
ChessEnv_step_index(e, move) ==
    IF move.raised THEN EnvRaise(e, "IndexError")
    ELSE ChessEnv_step_apply(e, ChessBoard_apply_move(e.board, move.val))

ChessEnv_step(e, action) ==
    IF action >= Len(ChessBoard_get_legal_moves(e.board, None))
    THEN EnvRaise(e, "ValueError")
    ELSE ChessEnv_step_index(e, PyIndex(ChessBoard_get_legal_moves(e.board, None), action))

\* move_to_action that counts the legal moves from 1
ChessEnv_move_to_action_from_one(e, move) ==
    [ListIndex(ChessBoard_get_legal_moves(e.board, None), move) EXCEPT !.val = @ + 1]

\* [raised, val]: the index of a chess.Move among the legal moves
ChessEnv_move_to_action(e, move) ==
    ListIndex(ChessBoard_get_legal_moves(e.board, None), move)

\* [raised, err, val]
ChessEnv_action_to_move_index(move) ==
    IF move.raised THEN [raised |-> TRUE, err |-> "IndexError", val |-> None]
    ELSE [raised |-> FALSE, err |-> "none", val |-> Some(move.val)]

ChessEnv_action_to_move(e, action) ==
    IF action >= Len(ChessBoard_get_legal_moves(e.board, None))
    THEN [raised |-> TRUE, err |-> "ValueError", val |-> None]
    ELSE ChessEnv_action_to_move_index(PyIndex(ChessBoard_get_legal_moves(e.board, None), action))

\* render prints str(self.board) in mode "human"; the printed text is output
\* and no part of the state.  The result is the raised error.
ChessEnv_render(e, mode) ==
    IF mode = "human" THEN EnvRaise(e, "none")
    ELSE IF mode = "rgb_array" THEN EnvRaise(e, "NotImplementedError")
    ELSE EnvRaise(e, "ValueError")

ChessEnv_close(e) == e

XiangqiEnv(max_steps) ==
    [game |-> "XiangqiEnv", board |-> XiangqiBoard, max_steps |-> max_steps,
     steps |-> 0, current_player |-> RED, rng |-> None]

XiangqiEnv_seed(e, seed) == [e EXCEPT !.rng = seed]

XiangqiEnv__get_legal_move_indices(e) ==
    PyRange(Len(XiangqiBoard_get_legal_moves(e.board, None)))

XiangqiEnv__get_action_mask(e) ==
    {(move.from_pos[1] * BOARD_WIDTH + move.from_pos[2]) * XIANGQI_CELLS
        + (move.to_pos[1] * BOARD_WIDTH + move.to_pos[2]) :
        move \in SeqRange(XiangqiBoard_get_legal_moves(e.board, None))}

XiangqiEnv_info(e, turn) ==
    [legal_moves |-> XiangqiEnv__get_legal_move_indices(e),
     action_mask |-> XiangqiEnv__get_action_mask(e),
     turn |-> turn,
     result |-> None]

XiangqiEnv_reset(e, seed) ==
    LET e0 == IF seed # None THEN XiangqiEnv_seed(e, seed) ELSE e
        e1 == [e0 EXCEPT !.board = XiangqiBoard_reset(@), !.steps = 0,
                         !.current_player = RED]
    IN EnvReturn(e1, 0, FALSE, FALSE, XiangqiEnv_info(e1, "red"))

XiangqiEnv_step_finish(e1, reward, terminated) ==
    EnvReturn(e1, reward, terminated, e1.steps >= e1.max_steps,
              [XiangqiEnv_info(e1, IF e1.board.current_player = RED THEN "red" ELSE "black")
                  EXCEPT !.result = IF terminated
                                    THEN Some(XiangqiBoard_get_result(e1.board))
                                    ELSE None])

XiangqiEnv_step_apply(e, r) ==
    IF r.raised # "none" THEN EnvRaise(e, r.raised)
    ELSE XiangqiEnv_step_finish([e EXCEPT !.board = r.b, !.steps = @ + 1,
                                          !.current_player = ~@],
                                r.reward, r.done)

XiangqiEnv_step_index(e, move) ==
    IF move.raised THEN EnvRaise(e, "IndexError")
    ELSE XiangqiEnv_step_apply(e, XiangqiBoard_apply_move(e.board, move.val))

XiangqiEnv_step(e, action) ==
    IF action >= Len(XiangqiBoard_get_legal_moves(e.board, None))
    THEN EnvRaise(e, "ValueError")
    ELSE XiangqiEnv_step_index(e, PyIndex(XiangqiBoard_get_legal_moves(e.board, None), action))

XiangqiEnv_move_to_action(e, move) ==
    ListIndex(XiangqiBoard_get_legal_moves(e.board, None), move)

XiangqiEnv_action_to_move_index(move) ==
    IF move.raised THEN [raised |-> TRUE, err |-> "IndexError", val |-> None]
    ELSE [raised |-> FALSE, err |-> "none", val |-> Some(move.val)]

XiangqiEnv_action_to_move(e, action) ==
    IF action >= Len(XiangqiBoard_get_legal_moves(e.board, None))
    THEN [raised |-> TRUE, err |-> "ValueError", val |-> None]
    ELSE XiangqiEnv_action_to_move_index(PyIndex(XiangqiBoard_get_legal_moves(e.board, None), action))

XiangqiEnv_render(e, mode) ==
    IF mode = "human" THEN EnvRaise(e, "none")
    ELSE IF mode = "rgb_array" THEN EnvRaise(e, "NotImplementedError")
    ELSE EnvRaise(e, "ValueError")

XiangqiEnv_close(e) == e

(***************************************************************************)
(* The Environment contract, dispatched on the game.                       *)
(***************************************************************************)
Env_reset(e, seed) ==
    IF e.game = "ChessEnv" THEN ChessEnv_reset(e, seed) ELSE XiangqiEnv_reset(e, seed)

Env_render(e, mode) ==
    IF e.game = "ChessEnv" THEN ChessEnv_render(e, mode) ELSE XiangqiEnv_render(e, mode)

Env_close(e) == IF e.game = "ChessEnv" THEN ChessEnv_close(e) ELSE XiangqiEnv_close(e)

Env_seed(e, seed) ==
    IF e.game = "ChessEnv" THEN ChessEnv_seed(e, seed) ELSE XiangqiEnv_seed(e, seed)

Env_step(e, action) ==
    IF e.game = "ChessEnv" THEN ChessEnv_step(e, action) ELSE XiangqiEnv_step(e, action)

Env_move_to_action(e, move) ==
    IF e.game = "ChessEnv" THEN ChessEnv_move_to_action(e, move)
    ELSE XiangqiEnv_move_to_action(e, move)

Env_action_to_move(e, action) ==
    IF e.game = "ChessEnv" THEN ChessEnv_action_to_move(e, action)
    ELSE XiangqiEnv_action_to_move(e, action)

\* the owned board's get_legal_moves()
Env_legal_moves(e) ==
    IF e.game = "ChessEnv" THEN ChessBoard_get_legal_moves(e.board, None)
    ELSE XiangqiBoard_get_legal_moves(e.board, None)

Env_cells(e) == IF e.game = "ChessEnv" THEN CHESS_CELLS ELSE XIANGQI_CELLS

\* the (from-cell, to-cell) pair of a move
FromTo(e, move) ==
    IF e.game = "ChessEnv" THEN <<move.from_square, move.to_square>>
    ELSE <<move.from_pos[1] * BOARD_WIDTH + move.from_pos[2],
           move.to_pos[1] * BOARD_WIDTH + move.to_pos[2]>>

(***************************************************************************)
(* SpecEnv: one environment, constructed with max_steps in 0..MaxK, driven *)
(* by reset, step, action_to_move, move_to_action, render, close and seed. *)
(* last.action of a seed call is the seed, -1 for None.  ghost.steps_ok    *)
(* counts the step calls that returned normally since construction or the  *)
(* last reset; ghost.K is the max_steps the environment was built with;    *)
(* ghost.terminated says that a step call since construction or the last   *)
(* reset returned terminated == True; ghost.turn is the "turn" of the last *)
(* info a reset or step call returned.                                     *)
(***************************************************************************)
ActionInputs == (-NegActions)..MaxAction

\* a step call is in bound when its action selects no move, or a move the
\* model plays
Env_in_bound(e, action) ==
    IF e.game # "ChessEnv" THEN TRUE
    ELSE IF action >= Len(chess_legal_moves(e.board.board)) THEN TRUE
    ELSE IF PyIndex(chess_legal_moves(e.board.board), action).raised THEN TRUE
    ELSE chess_in_bound(e.board.board,
                        PyIndex(chess_legal_moves(e.board.board), action).val)

\* reset's seed: None or an integer
SeedInputs == {None} \cup {Some(k) : k \in 0..MaxSeed}

EnvCalled(op, action, move, r, ret_move, ret_index) ==
    [op |-> op, action |-> action, move |-> move, raised |-> r.raised,
     reward |-> r.reward, terminated |-> r.terminated, truncated |-> r.truncated,
     info |-> r.info, ret_move |-> ret_move, ret_index |-> ret_index]

InitEnv ==
    /\ env \in {ChessEnv(k) : k \in 0..MaxK} \cup {XiangqiEnv(k) : k \in 0..MaxK}
    /\ board = None
    /\ oracle = "three_arg"
    /\ last = EnvCalled("init", 0, None, EnvRaise(env, "none"), None, 0)
    /\ ghost = [steps_ok |-> 0, K |-> env.max_steps, terminated |-> FALSE, turn |-> None]

\* the state after a reset call that did r
WasReset(r) ==
    /\ env' = r.e
    /\ last' = EnvCalled("reset", 0, None, r, None, 0)
    /\ ghost' = [ghost EXCEPT !.steps_ok = 0, !.terminated = FALSE,
                              !.turn = Some(r.info[1].turn)]

EnvReset ==
    /\ \E seed \in SeedInputs : WasReset(Env_reset(env, seed))
    /\ UNCHANGED <<board, oracle>>

\* the state after a step call that did r
Stepped(action, r) ==
    /\ env' = r.e
    /\ last' = EnvCalled("step", action, None, r, None, 0)
    /\ ghost' = IF r.raised = "none"
                THEN [ghost EXCEPT !.steps_ok = @ + 1,
                                   !.terminated = @ \/ r.terminated,
                                   !.turn = Some(r.info[1].turn)]
                ELSE ghost

EnvStep ==
    /\ env.steps < MaxPly
    /\ \E action \in ActionInputs :
          Env_in_bound(env, action) /\ Stepped(action, Env_step(env, action))
    /\ UNCHANGED <<board, oracle>>

EnvActionToMove ==
    /\ \E action \in ActionInputs :
          LET r == Env_action_to_move(env, action) IN
          last' = EnvCalled("action_to_move", action, None, EnvRaise(env, r.err),
                            r.val, 0)
    /\ UNCHANGED <<board, oracle, env, ghost>>

EnvMoveToAction ==
    /\ \E move \in (IF env.game = "ChessEnv" THEN ChessMoveInputs ELSE XiangqiMoveInputs) :
          LET r == Env_move_to_action(env, move) IN
          last' = EnvCalled("move_to_action", 0, Some(move),
                            EnvRaise(env, IF r.raised THEN "ValueError" ELSE "none"),
                            None, r.val)
    /\ UNCHANGED <<board, oracle, env, ghost>>

\* render's mode
RenderModes == {"human", "rgb_array", "ansi"}

EnvRender ==
    /\ \E mode \in RenderModes :
          /\ env' = Env_render(env, mode).e
          /\ last' = EnvCalled("render", 0, None, Env_render(env, mode), None, 0)
    /\ UNCHANGED <<board, oracle, ghost>>

EnvClose ==
    /\ env' = Env_close(env)
    /\ last' = EnvCalled("close", 0, None, EnvRaise(env', "none"), None, 0)
    /\ UNCHANGED <<board, oracle, ghost>>

EnvSeed ==
    /\ \E seed \in SeedInputs :
          /\ env' = Env_seed(env, seed)
          /\ last' = EnvCalled("seed", IF seed = None THEN -1 ELSE seed[1], None,
                               EnvRaise(env', "none"), None, 0)
    /\ UNCHANGED <<board, oracle, ghost>>

NextEnv ==
    \/ EnvReset
    \/ EnvStep
    \/ EnvActionToMove
    \/ EnvMoveToAction
    \/ EnvRender
    \/ EnvClose
    \/ EnvSeed

SpecEnv == InitEnv /\ [][NextEnv]_vars


(***************************************************************************)
(* Claims about the environments, checked under SpecEnv.                   *)
(***************************************************************************)

\* C6 as claimed: step(action) and action_to_move(action) fail with the
\* invalid-action error (ValueError) for every action outside [0, n), n the
\* number of legal moves at call time, negative indices included, and the
\* environment is left as it was.
C6_InvalidActionRejected ==
    [][(/\ last'.op \in {"step", "action_to_move"}
        /\ (last'.action < 0 \/ last'.action >= Len(Env_legal_moves(env))))
       => (last'.raised = "ValueError" /\ env' = env)]_vars

\* C7: the k-th step call that returned normally since construction or the
\* last reset returns truncated = TRUE exactly when k >= max_steps,
\* whatever terminated it returns.
C7_Truncation ==
    (last.op = "step" /\ last.raised = "none")
    => (last.truncated <=> ghost.steps_ok >= ghost.K)

\* a step that is both the max_steps-th and the one that ends the game
C7_Witness ==
    /\ last.op = "step"
    /\ last.raised = "none"
    /\ last.truncated
    /\ last.terminated
    /\ ghost.steps_ok = ghost.K

\* C8: steps is the number of step calls that returned normally since
\* construction or the last reset, max_steps is the value given at
\* construction, and a step call that raises leaves the environment
\* (steps, current_player, the board) as it was.
C8_StepsCountSuccessfulSteps ==
    /\ [](env.steps = ghost.steps_ok /\ env.max_steps = ghost.K)
    /\ [][(last'.op = "step" /\ last'.raised # "none") => env' = env]_vars

\* a step call raised after two steps had been taken
C8_Witness ==
    /\ last.op = "step"
    /\ last.raised # "none"
    /\ env.steps = 2

\* C9: in the position the environment holds, action_to_move and
\* move_to_action are inverse to each other on the legal moves.
C9_ActionIndexBijection ==
    /\ \A i \in 1..Len(Env_legal_moves(env)) :
          Env_action_to_move(env, Env_move_to_action(env, Env_legal_moves(env)[i]).val)
              = [raised |-> FALSE, err |-> "none", val |-> Some(Env_legal_moves(env)[i])]
    /\ \A a \in 0..(Len(Env_legal_moves(env)) - 1) :
          /\ ~Env_action_to_move(env, a).raised
          /\ Env_move_to_action(env, Env_action_to_move(env, a).val[1])
                 = [raised |-> FALSE, val |-> a]

\* move_to_action returned the index of e7e5, the sixteenth of Black's
\* twenty moves after 1. e4
C9_Witness ==
    /\ last.op = "move_to_action"
    /\ last.raised = "none"
    /\ last.ret_index = 15
    /\ Len(Env_legal_moves(env)) = 20
    /\ env.steps = 1

\* the (from-cell, to-cell) pairs the indices of a mask decode to
Decode(mask, cells) == {<<i \div cells, i % cells>> : i \in mask}

\* C10 as claimed: the mask has as many 1-entries as there are legal moves.
C10_MaskCountsLegalMoves ==
    last.info # None
    => Cardinality(last.info[1].action_mask) = Len(Env_legal_moves(env))

\* C10 as amended: the 1-entries of the mask decode to exactly the
\* (from-cell, to-cell) pairs of the legal moves, so their number is the
\* number of distinct pairs, and legal moves that share both cells share
\* one entry.
C10_MaskIsLegalFromToPairs ==
    last.info # None
    => /\ \A i \in last.info[1].action_mask : 0 <= i /\ i < Env_cells(env) * Env_cells(env)
       /\ Decode(last.info[1].action_mask, Env_cells(env))
              = {FromTo(env, m) : m \in SeqRange(Env_legal_moves(env))}

\* a step returned the mask of a position in which four promotions share
\* one entry
C10_Witness ==
    /\ last.op = "step"
    /\ last.info # None
    /\ Len(Env_legal_moves(env)) = 27
    /\ Cardinality(last.info[1].action_mask) = 24


(***************************************************************************)
(* Claims about game over, results, legal moves and reset, checked under   *)
(* Spec.                                                                   *)
(***************************************************************************)

\* C11 as claimed: the done flag of an apply_move call that returned
\* normally equals is_game_over() right afterwards, done is true exactly
\* when the board holds a stored result after the call, and the stored
\* result is set exactly when is_game_over() is true.
C11_DoneIsGameOverIsResultSet ==
    (last.op = "apply_move" /\ last.raised = "none")
    => /\ last.done = Board_is_game_over(board, oracle)
       /\ last.done <=> board.result # None
       /\ board.result # None <=> Board_is_game_over(board, oracle)

\* C12 as claimed: when get_legal_moves() returns an empty list for the
\* side to move, is_game_over() returns true.
C12_NoLegalMovesIsGameOver ==
    (~LegalNow(board).raised /\ Len(LegalNow(board).val) = 0)
    => Board_is_game_over(board, oracle)

\* the name get_result() uses for a side
SideName(b, side) ==
    IF b.variant = "ChessBoard" THEN (IF side THEN "white" ELSE "black")
    ELSE (IF side THEN "red" ELSE "black")

\* C13: when apply_move returns done = TRUE in a position the rules decide
\* for one side, get_result().winner names the side that made the move,
\* whichever colour it is.
C13_WinnerIsMover ==
    (/\ last.op = "apply_move"
     /\ last.raised = "none"
     /\ last.done
     /\ Winner(board) # None)
    => /\ Board_get_result(board, oracle).ret # <<>>
       /\ Board_get_result(board, oracle).ret[1].winner
              = Some(SideName(board, last.mover))

\* the second player ended the game with its move and is named the winner
C13_Witness ==
    /\ last.op = "apply_move"
    /\ last.done
    /\ ~last.mover
    /\ Winner(board) = Some(FALSE)
    /\ Board_get_result(board, oracle).ret[1].winner = Some("black")

\* C14 as claimed: get_result() returns an empty result exactly when
\* is_game_over() is false, and when the game is over the result carries
\* winner, termination reason and the number of applied moves.
C14_ResultEmptyOrComplete ==
    last.op = "get_result"
    => /\ last.ret = <<>> <=> ~Board_is_game_over(board, oracle)
       /\ Board_is_game_over(board, oracle)
          => /\ {"winner", "termination", "moves"} \subseteq DOMAIN last.ret[1]
             /\ last.ret[1].moves = Len(board.move_history)

\* C15 as claimed: once is_game_over() is true it stays true, and
\* get_result() keeps its winner and termination reason, under every
\* operation other than reset().
C15_TerminalIsAbsorbing ==
    [][(Board_is_game_over(board, oracle) /\ last'.op # "reset")
       => (/\ Board_is_game_over(board', oracle')
           /\ Board_get_result(board', oracle').ret[1].winner
                  = Board_get_result(board, oracle).ret[1].winner
           /\ Board_get_result(board', oracle').ret[1].termination
                  = Board_get_result(board, oracle).ret[1].termination)]_vars

\* C16: get_legal_moves(player) returns an empty list, and does not raise,
\* when player is the side that is not to move, and returns what
\* get_legal_moves() returns when player is None or the side to move.
C16_LegalMovesForPlayer ==
    last.op = "get_legal_moves"
    => IF last.arg = Some(~side_to_move(board))
       THEN last.raised = "none" /\ last.ret = <<>>
       ELSE /\ (last.raised # "none") = LegalNow(board).raised
            /\ last.ret = LegalNow(board).val

\* the side not to move was asked about in a position, reached by a move,
\* in which the side to move has legal moves
C16_Witness ==
    /\ last.op = "get_legal_moves"
    /\ last.arg = Some(~side_to_move(board))
    /\ last.ret = <<>>
    /\ ~LegalNow(board).raised
    /\ Len(LegalNow(board).val) > 0
    /\ Len(board.move_history) >= 1

\* the board a constructor without arguments builds
FreshBoard(b) ==
    CASE b.variant = "ChessBoard" -> ChessBoard(CHESS_START)
      [] b.variant = "XiangqiPyffishBoard" -> XiangqiPyffishBoard(sf_start_fen)
      [] b.variant = "XiangqiBoard" -> XiangqiBoard

\* C17: after reset() the board is the board a constructor without
\* arguments builds (starting position and state hash, empty history, no
\* stored result, first player to move), whatever came before, and a
\* second reset() changes nothing.
C17_ResetIsFresh ==
    /\ last.op = "reset"
       => /\ board = FreshBoard(board)
          /\ Board_get_state_hash(board) = Board_get_state_hash(FreshBoard(board))
          /\ board.move_history = <<>>
          /\ board.result = None
          /\ side_to_move(board) = TRUE
    /\ Board_reset(Board_reset(board)) = Board_reset(board)

\* reset() was called on a chess board with the second player to move
C17_Witness ==
    /\ last.op = "reset"
    /\ board.variant = "ChessBoard"
    /\ ~last.mover
    /\ board = ChessBoard(CHESS_START)


(***************************************************************************)
(* Claims about observations and state hashes, checked under Spec.         *)
(***************************************************************************)

\* the number of pieces on the board: of the oracle's piece map, of the
\* piece characters of the FEN's board part, of the non-empty grid cells
PieceCount(b) ==
    CASE b.variant = "ChessBoard" -> Cardinality(chess_piece_map[b.board])
      [] b.variant = "XiangqiPyffishBoard" ->
             Cardinality({ij \in (1..BOARD_HEIGHT) \X (1..BOARD_WIDTH) :
                 /\ ij[2] <= Len(fen_ranks(b.current_fen)[ij[1]])
                 /\ ~isdigit(fen_ranks(b.current_fen)[ij[1]][ij[2]])})
      [] b.variant = "XiangqiBoard" ->
             Cardinality({rc \in DOMAIN b.board : b.board[rc] # 0})

\* C21: in every reachable position the observation has as many entries
\* of 1.0 as there are pieces on the board (entries are 0.0 or 1.0, so
\* this is the sum over all planes), and no cell (row, col) is set in more
\* than one plane.
C21_ObservationCountsPieces ==
    last.op = "to_observation"
    => /\ Cardinality(last.ret) = PieceCount(board)
       /\ \A x, y \in last.ret : (x[2] = y[2] /\ x[3] = y[3]) => x = y

\* to_observation after a promotion (a7a8=Q) and after the two captures
\* h3h10, i10h10 of the oracle-backed board
C21_Witness ==
    /\ last.op = "to_observation"
    /\ ghost.applied >= 1
    /\ \/ board.variant = "ChessBoard" /\ board.board = 69
       \/ board.variant = "XiangqiPyffishBoard" /\ board.current_fen = 6

\* C22: Chess: a piece on rank r (1..8) and file index f is at row 8 - r,
\* column f of its plane.  Xiangqi: row 0 of the observation is the first
\* rank of the FEN, which in the starting position is Black's back rank;
\* for the native grid, which has no FEN, the board a constructor builds
\* has only Black's pieces (planes 7..13) in row 0.
C22_ObservationOrientation ==
    last.op = "to_observation"
    => CASE board.variant = "ChessBoard" ->
                \A x \in chess_piece_map[board.board] :
                    <<PIECE_TO_PLANE(x[2]), 8 - ((x[1] \div 8) + 1), x[1] % 8>>
                        \in last.ret
         [] board.variant = "XiangqiPyffishBoard" ->
                {<<x[3], x[1]>> : x \in {y \in last.ret : y[2] = 0}}
                    = {<<cell[1], XiangqiPyffishBoard_plane_idx(
                                      PIECE_MAPPING[cell[2]][1], PIECE_MAPPING[cell[2]][2])>> :
                          cell \in ScanRank(fen_ranks(board.current_fen)[1], 1, 0)}
         [] board.variant = "XiangqiBoard" ->
                board = XiangqiBoard
                => /\ \E x \in last.ret : x[2] = 0
                   /\ \A x \in last.ret : x[2] = 0 => x[1] >= NUM_PIECE_TYPES

\* the boards of a variant, one for every position the oracle knows
BoardsOf(variant) ==
    CASE variant = "ChessBoard" -> {ChessBoard(f) : f \in ChessPositions}
      [] variant = "XiangqiPyffishBoard" -> {XiangqiPyffishBoard(f) : f \in XqPositions}
      [] variant = "XiangqiBoard" -> {XiangqiBoard}

\* two boards of one variant hold the same piece placement and have the
\* same side to move
SamePosition(b1, b2) ==
    /\ b1.variant = b2.variant
    /\ side_to_move(b1) = side_to_move(b2)
    /\ CASE b1.variant = "ChessBoard" ->
                chess_piece_map[b1.board] = chess_piece_map[b2.board]
         [] b1.variant = "XiangqiPyffishBoard" ->
                fen_ranks(b1.current_fen) = fen_ranks(b2.current_fen)
         [] b1.variant = "XiangqiBoard" -> b1.board = b2.board

\* C23: a board's state hash equals the state hash of every board of the
\* same variant that holds the same piece placement with the same side to
\* move, however many moves either took to get there.
C23_EqualPositionsEqualHashes ==
    last.op = "get_state_hash"
    => \A b2 \in BoardsOf(board.variant) :
           SamePosition(board, b2) => Board_get_state_hash(b2) = last.ret

\* C24: an apply_move that returns normally changes the state hash.
C24_MoveChangesHash ==
    [][(last'.op = "apply_move" /\ last'.raised = "none")
       => Board_get_state_hash(board') # Board_get_state_hash(board)]_vars

\* moves applied by the chess board and by the oracle-backed Xiangqi board,
\* one of them in a position in which the game is already drawn
C24_Witness ==
    /\ last.op = "apply_move"
    /\ last.raised = "none"
    /\ \/ board.variant = "ChessBoard" /\ board.board = 62
       \/ board.variant = "XiangqiPyffishBoard" /\ ghost.applied >= 2

\* C27: a XiangqiPyffishBoard gives the same answers against an oracle
\* that accepts only the two-argument legal-move call as against one that
\* accepts the three-argument call: in every state the board reaches with
\* the latter, get_legal_moves, apply_move (the board it leaves, reward
\* and done), is_game_over and get_result agree under the two oracles.
C27_SignatureTolerance ==
    (board.variant = "XiangqiPyffishBoard" /\ oracle = "three_arg")
    => /\ \A player \in PlayerInputs :
              XiangqiPyffishBoard_get_legal_moves(board, player, "two_arg_only")
                  = XiangqiPyffishBoard_get_legal_moves(board, player, "three_arg")
       /\ \A move \in {m \in XqMoveInputs : Board_in_bound(board, m)},
                 write_ok \in BOOLEAN :
              XiangqiPyffishBoard_apply_move(board, move, "two_arg_only", write_ok)
                  = XiangqiPyffishBoard_apply_move(board, move, "three_arg", write_ok)
       /\ XiangqiPyffishBoard_is_game_over(board, "two_arg_only")
              = XiangqiPyffishBoard_is_game_over(board, "three_arg")
       /\ XiangqiPyffishBoard_get_result(board, "two_arg_only")
              = XiangqiPyffishBoard_get_result(board, "three_arg")

\* C30: the read operations leave the board (position, side to move,
\* move_history, stored result) as it was; to_observation called again on
\* the unmutated board returns the same tensor, and the tensor is that of
\* every board with the same position and side to move, whatever its
\* move history.
C30_ReadsArePure ==
    [][/\ last'.op \in {"to_observation", "get_legal_moves", "is_game_over",
                        "get_state_hash", "get_result"}
          => board' = board
       /\ (last.op = "to_observation" /\ last'.op = "to_observation")
          => last'.ret = last.ret
       /\ last'.op = "to_observation"
          => \A b2 \in BoardsOf(board.variant) :
                 SamePosition(board, b2) => Board_to_observation(b2) = last'.ret]_vars

(***************************************************************************)
(* Claims about episodes, checked under SpecEnv.                           *)
(***************************************************************************)

\* C28: the info of a reset or step that returned lists exactly the
\* indices 0..n-1 of the n legal moves of the position the next step
\* decodes against, and a step whose index is taken from the info the
\* call before it returned raises nothing.
C28_LegalIndexNeverRaises ==
    [][/\ (last'.op \in {"reset", "step"} /\ last'.raised = "none")
          => last'.info[1].legal_moves = PyRange(Len(Env_legal_moves(env')))
       /\ (/\ last.op \in {"reset", "step"}
           /\ last.info # None
           /\ last'.op = "step"
           /\ InList(last'.action, last.info[1].legal_moves))
          => last'.raised = "none"]_vars

\* a step with a listed index, taken after a step that ended the game in a
\* position that still has legal moves
C28_Witness ==
    /\ last.op = "step"
    /\ last.raised = "none"
    /\ env.game = "ChessEnv"
    /\ env.board.board \in {29, 30}
    /\ ghost.terminated
    /\ ghost.steps_ok = 17

\* an environment as its constructor builds it
FreshEnv(e) ==
    IF e.game = "ChessEnv" THEN ChessEnv(e.max_steps) ELSE XiangqiEnv(e.max_steps)

\* what a caller sees of a reset or step: the error, the reward, the flags,
\* the info dict and the state fingerprint of the owned board; and the
\* environment it leaves, without its rng
Visible(r) ==
    [raised |-> r.raised, reward |-> r.reward, terminated |-> r.terminated,
     truncated |-> r.truncated, info |-> r.info,
     fingerprint |-> Board_get_state_hash(r.e.board),
     e |-> [r.e EXCEPT !.rng = None]]

\* C29: episodes are replayable.  Two environments of the same game built
\* with the same max_steps are, after reset with any seeds, in the same
\* state apart from their rng and have returned the same info; and two
\* environments that differ only in their rng return the same fingerprint,
\* reward, terminated and truncated flags and legal-index list for the
\* same action and stay equal apart from their rng.
C29_EpisodesAreReplayable ==
    /\ \A seed \in SeedInputs :
           Visible(Env_reset(env, seed)) = Visible(Env_reset(FreshEnv(env), None))
    /\ \A action \in {a \in ActionInputs : Env_in_bound(env, a)}, seed \in SeedInputs :
           Visible(Env_step(env, action))
               = Visible(Env_step([env EXCEPT !.rng = seed], action))

\* an environment reset with a seed after two steps, and stepped again
C29_Witness ==
    /\ last.op = "step"
    /\ last.raised = "none"
    /\ env.rng = Some(0)
    /\ env.steps >= 2

\* the owned board and the episode bookkeeping of two environment states agree
SameEpisode(e1, e2) ==
    /\ e1.board = e2.board
    /\ e1.steps = e2.steps
    /\ e1.max_steps = e2.max_steps
    /\ e1.current_player = e2.current_player

\* C32: a call of render (in any mode, raising or not), close or seed leaves
\* the owned board (position, side to move, move_history, result) and steps,
\* max_steps and current_player as they were, in whatever state it is called.
C32_UtilitiesKeepState ==
    [][last'.op \in {"render", "close", "seed"} => SameEpisode(env, env')]_vars

\* C32 happens: seed(0) was called in the middle of an episode
C32_Witness ==
    /\ last.op = "seed"
    /\ env.rng = Some(0)
    /\ env.steps > 0
    /\ Len(env.board.move_history) > 0

\* C33: once a step call has returned terminated == True, every step call
\* before the next reset raises and leaves the board and the steps counter
\* as they were.
C33_TerminatedIsFinal ==
    [][(ghost.terminated /\ last'.op = "step") =>
          /\ last'.raised # "none"
          /\ env'.board = env.board
          /\ env'.steps = env.steps]_vars

\* C34: whenever the info returned by reset, or by a step that reported
\* terminated == False, lists no legal action index, the game is over: there
\* is no state that is not terminated and in which no step is possible.
C34_NoStuckEpisodes ==
    (/\ last.op \in {"reset", "step"}
     /\ last.raised = "none"
     /\ ~last.terminated
     /\ last.info[1].legal_moves = <<>>)
    => Board_is_game_over(env.board, oracle)

\* the "turn" label of the side to move of the owned board
TurnLabel(e) ==
    IF e.game = "ChessEnv" THEN (IF side_to_move(e.board) THEN "white" ELSE "black")
    ELSE (IF side_to_move(e.board) THEN "red" ELSE "black")

\* C35: in every reachable state of an environment (after construction, resets,
\* steps that returned and steps that raised) current_player is the owned
\* board's side to move, and the "turn" of the last info that reset or step
\* returned names that side.
C35_CurrentPlayerIsSideToMove ==
    /\ env.current_player = side_to_move(env.board)
    /\ ghost.turn # None => ghost.turn[1] = TurnLabel(env)

\* C35 happens: a step raised after one move was played, with Black to move
C35_Witness ==
    /\ last.op = "step"
    /\ last.raised # "none"
    /\ env.steps = 1
    /\ env.current_player = BLACK
    /\ ghost.turn = Some("black")

(***************************************************************************)
(* Move (game/move.py).  A text is a sequence of one-character strings.    *)
(* promotion and metadata are options; a metadata dict is its tag.         *)
(***************************************************************************)
Move(from_sq, to_sq, promotion, metadata) ==
    [from_sq |-> from_sq, to_sq |-> to_sq, promotion |-> promotion,
     metadata |-> metadata]

\* promotion_map of from_uci: .get(c, None)
from_uci_promotion_map(c) ==
    CASE c = "q" -> Some(5) [] c = "r" -> Some(4) [] c = "b" -> Some(3)
      [] c = "n" -> Some(2) [] OTHER -> None

\* promotion_map of to_uci: .get(k, '')
to_uci_promotion_map(k) ==
    CASE k = 5 -> <<"q">> [] k = 4 -> <<"r">> [] k = 3 -> <<"b">>
      [] k = 2 -> <<"n">> [] OTHER -> <<>>

square_to_index(file, rank) == (int(rank) - 1) * 8 + (ord(file) - ord("a"))

index_to_square(index) == <<chr(ord("a") + (index % 8)), str(index \div 8 + 1)>>

\* [raised, val]: indexing a text shorter than 4 raises IndexError, int()
\* of a rank that is no digit raises ValueError; nothing else is checked
Move_from_uci(uci_str) ==
    IF Len(uci_str) < 4 THEN [raised |-> "IndexError", val |-> None]
    ELSE IF ~isdigit(uci_str[2]) \/ ~isdigit(uci_str[4])
    THEN [raised |-> "ValueError", val |-> None]
    ELSE [raised |-> "none",
          val |-> Some(Move(square_to_index(uci_str[1], uci_str[2]),
                            square_to_index(uci_str[3], uci_str[4]),
                            IF Len(uci_str) = 5
                            THEN from_uci_promotion_map(lower(uci_str[5]))
                            ELSE None,
                            None))]

\* to_uci whose promotion letters are the table of from_uci read backwards
Move_to_uci_shifted_map(m) ==
    index_to_square(m.from_sq) \o index_to_square(m.to_sq)
        \o (IF m.promotion # None /\ m.promotion[1] # 0
            THEN to_uci_promotion_map(7 - m.promotion[1]) ELSE <<>>)

\* `if self.promotion:` is false for None and for 0
Move_to_uci(m) ==
    index_to_square(m.from_sq) \o index_to_square(m.to_sq)
        \o (IF m.promotion # None /\ m.promotion[1] # 0
            THEN to_uci_promotion_map(m.promotion[1]) ELSE <<>>)

(***************************************************************************)
(* SpecMove: ghost is the caller's input, a Move or a text; to_uci is      *)
(* applied to a Move, from_uci to a text or to what to_uci returned.       *)
(***************************************************************************)
NUM_SQUARES == 64
MaxPromotion == 6
MaxTextLen == 6

MoveValues ==
    {Move(f, t, k, d) : f \in 0..(NUM_SQUARES - 1), t \in 0..(NUM_SQUARES - 1),
                        k \in {None} \cup {Some(j) : j \in 0..MaxPromotion},
                        d \in {None, Some("tag")}}

\* the characters tried at the i-th place of a text
CharsAt(i) ==
    CASE i \in {1, 3} -> {"a", "h", "i", "z", "1"}
      [] i \in {2, 4} -> {"1", "8", "9", "0", "x"}
      [] i = 5 -> {"q", "n", "Q", "x", "1"}
      [] OTHER -> {"q"}

RECURSIVE Texts(_)
Texts(n) == IF n = 0 THEN {<<>>}
            ELSE {Append(t, c) : t \in Texts(n - 1), c \in CharsAt(n)}

TextValues == UNION {Texts(n) : n \in 0..MaxTextLen}

MoveCalled(op, text, raised, move) ==
    [op |-> op, text |-> text, raised |-> raised, move |-> move]

InitMove ==
    /\ ghost \in {[move |-> Some(m), text |-> None] : m \in MoveValues}
                 \cup {[move |-> None, text |-> Some(t)] : t \in TextValues}
    /\ last = MoveCalled("init", None, "none", None)
    /\ board = None
    /\ env = None
    /\ oracle = "three_arg"

ToUci ==
    /\ last.op = "init"
    /\ ghost.move # None
    /\ last' = MoveCalled("to_uci", Some(Move_to_uci(ghost.move[1])), "none", None)
    /\ UNCHANGED <<board, oracle, env, ghost>>

FromUciOf(text) ==
    /\ last' = MoveCalled("from_uci", Some(text), Move_from_uci(text).raised,
                          Move_from_uci(text).val)
    /\ UNCHANGED <<board, oracle, env, ghost>>

FromUci ==
    \/ last.op = "to_uci" /\ FromUciOf(last.text[1])
    \/ last.op = "init" /\ ghost.text # None /\ FromUciOf(ghost.text[1])

NextMove == ToUci \/ FromUci

SpecMove == InitMove /\ [][NextMove]_vars

(***************************************************************************)
(* Claims about Move, checked under SpecMove.                              *)
(***************************************************************************)

\* C18 as claimed: Move.from_uci(m.to_uci()) == m for every Move m with
\* cells in 0..63, whatever its promotion value and with or without
\* metadata.
C18_RoundTripEveryMove ==
    (last.op = "from_uci" /\ ghost.move # None)
    => (last.raised = "none" /\ last.move = ghost.move)

\* a Move that UCI text can carry: no metadata, promotion None or one of
\* knight, bishop, rook, queen
UciMove(m) ==
    /\ m.metadata = None
    /\ m.promotion \in {None, Some(2), Some(3), Some(4), Some(5)}

\* C18 as amended: Move.from_uci(m.to_uci()) == m for every Move m with
\* cells in 0..63, promotion None or 2..5 and no metadata.
C18_RoundTripUciMoves ==
    (last.op = "from_uci" /\ ghost.move # None /\ UciMove(ghost.move[1]))
    => (last.raised = "none" /\ last.move = ghost.move)

\* the promotion e7e8q came back from its text
C18_Witness ==
    /\ last.op = "from_uci"
    /\ ghost.move = Some(Move(52, 60, Some(5), None))
    /\ last.text = Some(<<"e", "7", "e", "8", "q">>)
    /\ last.move = ghost.move

\* a text from_uci should accept: file letter, rank digit, file letter,
\* rank digit and, as a fifth character, a promotion letter
ValidUci(t) ==
    /\ Len(t) \in {4, 5}
    /\ \A i \in {1, 3} : t[i] \in {"a", "b", "c", "d", "e", "f", "g", "h"}
    /\ \A i \in {2, 4} : t[i] \in {"1", "2", "3", "4", "5", "6", "7", "8"}
    /\ Len(t) = 5 => lower(t[5]) \in {"q", "r", "b", "n"}

\* C19 as claimed: from_uci fails for every text whose length is not 4 or
\* 5 or that has an invalid character, and a Move it returns has cells in
\* 0..63 and, for a text of length 5, a promotion.
C19_FromUciRejectsInvalidText ==
    (last.op = "from_uci" /\ ghost.text # None)
    => /\ ~ValidUci(ghost.text[1]) => last.raised # "none"
       /\ last.raised = "none"
          => /\ last.move[1].from_sq \in 0..(NUM_SQUARES - 1)
             /\ last.move[1].to_sq \in 0..(NUM_SQUARES - 1)
             /\ Len(ghost.text[1]) = 5 => last.move[1].promotion # None


(***************************************************************************)
(* SimpleXiangqiBoard (game/simple_xiangqi_board.py), on the same oracle   *)
(* as XiangqiPyffishBoard.                                                 *)
(***************************************************************************)

\* piece_mapping: FEN character to (piece_type, is_red)
piece_mapping ==
    [c \in {"P", "N", "B", "A", "R", "C", "K", "p", "n", "b", "a", "r", "c", "k"} |->
        <<CASE lower(c) = "p" -> 0 [] lower(c) = "n" -> 1 [] lower(c) = "b" -> 2
            [] lower(c) = "a" -> 3 [] lower(c) = "r" -> 4 [] lower(c) = "c" -> 5
            [] lower(c) = "k" -> 6,
          c # lower(c)>>]

SimpleXiangqiBoard ==
    [variant |-> "SimpleXiangqiBoard", current_fen |-> sf_start_fen,
     move_history |-> <<>>, result |-> None]

SimpleXiangqiBoard_reset(b) ==
    [b EXCEPT !.current_fen = sf_start_fen, !.move_history = <<>>, !.result = None]

\* an exception of the oracle becomes the empty list
SimpleXiangqiBoard_get_legal_moves(b, mode) ==
    IF sf_legal_moves3(mode, b.current_fen).raised THEN <<>>
    ELSE sf_legal_moves3(mode, b.current_fen).val

\* make_move, after sf.get_fen returned: is_done and the reward
SimpleXiangqiBoard_make_move_done(b2, mode) ==
    IF sf_legal_moves3(mode, b2.current_fen).raised THEN Return(b2, 0, FALSE)
    ELSE IF Len(sf_legal_moves3(mode, b2.current_fen).val) = 0 THEN Return(b2, 1, TRUE)
    ELSE Return(b2, 0, FALSE)

\* make_move that leaves the move in the history when sf.get_fen raises
SimpleXiangqiBoard_make_move_keeps_move(b, move_str, mode, write_ok) ==
    IF ~InList(move_str, SimpleXiangqiBoard_get_legal_moves(b, mode))
    THEN Raise(b, "ValueError")
    ELSE IF sf_get_fen(write_ok, b.current_fen, move_str).raised
    THEN Raise([b EXCEPT !.move_history = Append(@, move_str)], "ValueError")
    ELSE SimpleXiangqiBoard_make_move_done(
             [b EXCEPT !.move_history = Append(@, move_str),
                       !.current_fen = sf_get_fen(write_ok, b.current_fen, move_str).val],
             mode)

SimpleXiangqiBoard_make_move(b, move_str, mode, write_ok) ==
    IF ~InList(move_str, SimpleXiangqiBoard_get_legal_moves(b, mode))
    THEN Raise(b, "ValueError")
    ELSE IF sf_get_fen(write_ok, b.current_fen, move_str).raised
    THEN Raise([b EXCEPT !.move_history = Pop(Append(@, move_str))], "ValueError")
    ELSE SimpleXiangqiBoard_make_move_done(
             [b EXCEPT !.move_history = Append(@, move_str),
                       !.current_fen = sf_get_fen(write_ok, b.current_fen, move_str).val],
             mode)

SimpleXiangqiBoard_is_game_over(b, mode) ==
    IF sf_legal_moves3(mode, b.current_fen).raised THEN FALSE
    ELSE Len(sf_legal_moves3(mode, b.current_fen).val) = 0

\* the plane of a piece: piece_type if is_red else piece_type + NUM_PIECE_TYPES // 2
SimpleXiangqiBoard_plane_idx(piece_type, is_red) ==
    IF is_red THEN piece_type ELSE piece_type + NUM_PIECE_TYPES \div 2

\* the entries set to 1.0 by one rank of the FEN, as (plane, rank_idx,
\* file_idx); a character outside piece_mapping sets none and takes one file
SimpleXiangqiBoard_rank_planes(rank, rank_idx) ==
    {<<SimpleXiangqiBoard_plane_idx(piece_mapping[cell[2]][1], piece_mapping[cell[2]][2]),
       rank_idx, cell[1]>> :
        cell \in {x \in ScanRank(rank, 1, 0) : x[2] \in DOMAIN piece_mapping}}

\* the observation is the set of the (plane, rank_idx, file_idx) whose entry
\* is 1.0
SimpleXiangqiBoard_get_observation(b) ==
    UNION {SimpleXiangqiBoard_rank_planes(fen_ranks(b.current_fen)[rank_idx + 1], rank_idx) :
               rank_idx \in 0..(Len(fen_ranks(b.current_fen)) - 1)}

SimpleXiangqiBoard_get_result(b, mode) ==
    IF ~SimpleXiangqiBoard_is_game_over(b, mode)
    THEN <<[winner |-> None, termination |-> None]>>
    ELSE <<[winner |-> Some(IF fen_side(b.current_fen) = "w" THEN "black" ELSE "red"),
            termination |-> Some("checkmate")]>>

(***************************************************************************)
(* SpecSimple: one SimpleXiangqiBoard driven by its operations.            *)
(***************************************************************************)
InitSimple ==
    /\ board = SimpleXiangqiBoard
    /\ oracle \in OracleModes
    /\ env = None
    /\ last = Called("init", None, Return(board, 0, FALSE), TRUE)
    /\ ghost = [init_side |-> TRUE, applied |-> 0, applied_moves |-> <<>>]

SimpleReset ==
    /\ board' = SimpleXiangqiBoard_reset(board)
    /\ last' = Called("reset", None, Return(board', 0, FALSE),
                      fen_side(board.current_fen) = "w")
    /\ ghost' = [init_side |-> TRUE, applied |-> 0, applied_moves |-> <<>>]
    /\ UNCHANGED <<oracle, env>>

SimpleMade(move_str, r) ==
    /\ board' = r.b
    /\ last' = Called("make_move", Some(move_str), r, fen_side(board.current_fen) = "w")
    /\ ghost' = IF r.raised = "none"
                THEN [ghost EXCEPT !.applied = @ + 1,
                                   !.applied_moves = Append(@, move_str)]
                ELSE ghost
    /\ UNCHANGED <<oracle, env>>

SimpleMakeMove ==
    /\ Len(board.move_history) < MaxPly
    /\ \E move_str \in XqMoveInputs, write_ok \in BOOLEAN :
          /\ Board_in_bound(board, move_str)
          /\ SimpleMade(move_str,
                        SimpleXiangqiBoard_make_move(board, move_str, oracle, write_ok))

SimpleRead(op, ret) ==
    /\ last' = Read(op, None, "none", ret, fen_side(board.current_fen) = "w")
    /\ UNCHANGED <<board, oracle, env, ghost>>

SimpleGetLegalMoves ==
    SimpleRead("get_legal_moves", SimpleXiangqiBoard_get_legal_moves(board, oracle))

SimpleIsGameOver ==
    SimpleRead("is_game_over", SimpleXiangqiBoard_is_game_over(board, oracle))

SimpleGetResult ==
    SimpleRead("get_result", SimpleXiangqiBoard_get_result(board, oracle))

SimpleGetObservation ==
    SimpleRead("get_observation", SimpleXiangqiBoard_get_observation(board))

NextSimple ==
    \/ SimpleReset
    \/ SimpleMakeMove
    \/ SimpleGetLegalMoves
    \/ SimpleIsGameOver
    \/ SimpleGetResult
    \/ SimpleGetObservation

SpecSimple == InitSimple /\ [][NextSimple]_vars

(***************************************************************************)
(* Claims about observations, checked under SpecSimple.                    *)
(***************************************************************************)

\* the (piece_type, is_red) pairs of piece_mapping
PieceKinds == (0..(NUM_PIECE_TYPES - 1)) \X BOOLEAN

\* the piece at (row, col) of the position, as (piece_type, is_red), when
\* there is one
PieceAt(b, row, col) ==
    {piece_mapping[cell[2]] :
        cell \in {x \in ScanRank(fen_ranks(b.current_fen)[row + 1], 1, 0) : x[1] = col}}

\* C20 as claimed: distinct (piece-kind, colour) pairs have distinct
\* planes, and the plane of a pair holds 1.0 at (row, col) exactly when a
\* piece of that kind and colour is on that cell.
C20_ObservationPlanes ==
    last.op = "get_observation"
    => /\ \A p, q \in PieceKinds :
             p # q => SimpleXiangqiBoard_plane_idx(p[1], p[2])
                          # SimpleXiangqiBoard_plane_idx(q[1], q[2])
       /\ \A p \in PieceKinds, row \in 0..(BOARD_HEIGHT - 1), col \in 0..(BOARD_WIDTH - 1) :
             <<SimpleXiangqiBoard_plane_idx(p[1], p[2]), row, col>> \in last.ret
                 <=> p \in PieceAt(board, row, col)


(***************************************************************************)
(* SpecOracle: one oracle-backed board, a XiangqiPyffishBoard constructed  *)
(* from any position or a SimpleXiangqiBoard, driven by its operations.    *)
(***************************************************************************)
InitOracle ==
    \/ Init /\ board.variant = "XiangqiPyffishBoard"
    \/ InitSimple

NextOracle ==
    \/ board.variant = "XiangqiPyffishBoard" /\ Next
    \/ board.variant = "SimpleXiangqiBoard" /\ NextSimple

SpecOracle == InitOracle /\ [][NextOracle]_vars

(***************************************************************************)
(* Claims about oracle failures, checked under SpecOracle.                 *)
(***************************************************************************)

\* the move passes the legality check of apply_move / make_move on board b
PassesLegalityCheck(b, move, mode) ==
    /\ ~sf_legal_moves3(mode, b.current_fen).raised
    /\ InList(move, sf_legal_moves3(mode, b.current_fen).val)

\* C25: apply_move / make_move of a move that passes the legality check
\* either returns normally with the position the oracle's next-position
\* call gave, or, when that call raised, raises an error and leaves the
\* position string (and with it the side to move), move_history and the
\* stored result as they were.
C25_WriteFailureRollsBack ==
    [][(last'.op \in {"apply_move", "make_move"}
        /\ PassesLegalityCheck(board, last'.arg[1], oracle))
       => \/ /\ last'.raised = "none"
             /\ board'.current_fen = sf_get_fen(TRUE, board.current_fen, last'.arg[1]).val
          \/ /\ last'.raised # "none"
             /\ board' = board]_vars

\* a legal move whose next-position call raised, after two moves that were
\* applied
C25_Witness ==
    /\ last.op \in {"apply_move", "make_move"}
    /\ last.raised = "ValueError"
    /\ PassesLegalityCheck(board, last.arg[1], oracle)
    /\ Len(board.move_history) = 2

\* C26: when the oracle's legal-move query raises under every call
\* signature, get_legal_moves() returns an empty sequence and does not
\* raise, and the board is unchanged.
C26_ReadFailureIsNoMoves ==
    [][(last'.op = "get_legal_moves" /\ oracle = "unavailable")
       => /\ last'.raised = "none"
          /\ last'.ret = <<>>
          /\ board' = board]_vars


(***************************************************************************)
(* GameFactory (game/game_factory.py).  A game type is a text.  A call     *)
(* returns the raised error ("none" when it returned) and what it built.   *)
(***************************************************************************)
CHESS == <<"c", "h", "e", "s", "s">>
XIANGQI == <<"x", "i", "a", "n", "g", "q", "i">>
XIANGQI_PYFFISH == <<"x", "i", "a", "n", "g", "q", "i", "_", "p", "y", "f", "f", "i", "s", "h">>
XIANGQI_SIMPLE == <<"x", "i", "a", "n", "g", "q", "i", "_", "s", "i", "m", "p", "l", "e">>

\* str.lower() of a text
str_lower(text) == [i \in 1..Len(text) |-> lower(text[i])]

Built(val) == [raised |-> "none", val |-> Some(val)]
Unsupported == [raised |-> "ValueError", val |-> None]

\* create_board that compares the game type as it was given
GameFactory_create_board_exact_case(game_type) ==
    IF game_type = CHESS THEN Built(ChessBoard(CHESS_START))
    ELSE IF game_type = XIANGQI THEN Built(XiangqiBoard)
    ELSE IF game_type = XIANGQI_PYFFISH THEN Built(XiangqiPyffishBoard(sf_start_fen))
    ELSE IF game_type = XIANGQI_SIMPLE THEN Built(SimpleXiangqiBoard)
    ELSE Unsupported

GameFactory_create_board(game_type) ==
    IF str_lower(game_type) = CHESS THEN Built(ChessBoard(CHESS_START))
    ELSE IF str_lower(game_type) = XIANGQI THEN Built(XiangqiBoard)
    ELSE IF str_lower(game_type) = XIANGQI_PYFFISH
    THEN Built(XiangqiPyffishBoard(sf_start_fen))
    ELSE IF str_lower(game_type) = XIANGQI_SIMPLE THEN Built(SimpleXiangqiBoard)
    ELSE Unsupported

DEFAULT_MAX_STEPS == 400

GameFactory_create_environment(game_type, max_steps) ==
    IF str_lower(game_type) = CHESS
    THEN (IF max_steps # None THEN Built(ChessEnv(max_steps[1]))
          ELSE Built(ChessEnv(DEFAULT_MAX_STEPS)))
    ELSE IF str_lower(game_type) = XIANGQI
    THEN (IF max_steps # None THEN Built(XiangqiEnv(max_steps[1]))
          ELSE Built(XiangqiEnv(DEFAULT_MAX_STEPS)))
    ELSE Unsupported

(***************************************************************************)
(* SpecFactory: the factory called with a game type, and with a max_steps  *)
(* for an environment; last is the call and what it returned.              *)
(***************************************************************************)
GameTypeInputs ==
    {<<"c", "h", "e", "s", "s">>,
     <<"C", "h", "e", "s", "s">>,
     <<"C", "H", "E", "S", "S">>,
     <<"x", "i", "a", "n", "g", "q", "i">>,
     <<"X", "i", "a", "n", "g", "q", "i">>,
     <<"X", "I", "A", "N", "G", "Q", "I">>,
     <<"x", "i", "a", "n", "g", "q", "i", "_", "p", "y", "f", "f", "i", "s", "h">>,
     <<"X", "i", "a", "n", "g", "q", "i", "_", "p", "y", "f", "f", "i", "s", "h">>,
     <<"X", "I", "A", "N", "G", "Q", "I", "_", "P", "Y", "F", "F", "I", "S", "H">>,
     <<"x", "i", "a", "n", "g", "q", "i", "_", "s", "i", "m", "p", "l", "e">>,
     <<"X", "i", "a", "n", "g", "q", "i", "_", "s", "i", "m", "p", "l", "e">>,
     <<"X", "I", "A", "N", "G", "Q", "I", "_", "S", "I", "M", "P", "L", "E">>,
     <<"x", "i", "a", "n", "g", "q", "i", "_", "S", "i", "m", "p", "l", "e">>,
     <<"c", "H", "e", "S", "s">>,
     <<>>,
     <<"g", "o">>,
     <<"s", "h", "o", "g", "i">>,
     <<"c", "h", "e", "s">>,
     <<"c", "h", "e", "s", "s", "s">>,
     <<"c", "h", "e", "s", "s", " ">>,
     <<" ", "c", "h", "e", "s", "s">>,
     <<"x", "i", "a", "n", "g", "q", "i", "_">>,
     <<"x", "i", "a", "n", "g", "q", "i", "p", "y", "f", "f", "i", "s", "h">>,
     <<"x", "i", "a", "n", "g", "q", "i", " ", "s", "i", "m", "p", "l", "e">>,
     <<"p", "y", "f", "f", "i", "s", "h">>,
     <<"s", "i", "m", "p", "l", "e">>,
     <<"c", "h", "e", "s", "s", "_", "x", "i", "a", "n", "g", "q", "i">>}

MaxStepsInputs == {None} \cup {Some(k) : k \in 0..MaxK}

FactoryCalled(op, game_type, max_steps, r) ==
    [op |-> op, game_type |-> game_type, max_steps |-> max_steps,
     raised |-> r.raised, val |-> r.val]

InitFactory ==
    /\ last = FactoryCalled("init", <<>>, None, Unsupported)
    /\ board = None
    /\ env = None
    /\ oracle = "three_arg"
    /\ ghost = None

CreateBoard ==
    /\ \E game_type \in GameTypeInputs :
          last' = FactoryCalled("create_board", game_type, None,
                                GameFactory_create_board(game_type))
    /\ UNCHANGED <<board, oracle, env, ghost>>

CreateEnvironment ==
    /\ \E game_type \in GameTypeInputs, max_steps \in MaxStepsInputs :
          last' = FactoryCalled("create_environment", game_type, max_steps,
                                GameFactory_create_environment(game_type, max_steps))
    /\ UNCHANGED <<board, oracle, env, ghost>>

NextFactory == CreateBoard \/ CreateEnvironment

SpecFactory == InitFactory /\ [][NextFactory]_vars

(***************************************************************************)
(* Claims about the factory, checked under SpecFactory.                    *)
(***************************************************************************)

\* the text names the identifier, whatever the case of its letters
Names(text, identifier) ==
    /\ Len(text) = Len(identifier)
    /\ \A i \in 1..Len(text) :
          \/ text[i] = identifier[i]
          \/ ord(text[i]) + 32 = ord(identifier[i]) /\ ord(identifier[i]) >= ord("a")

\* C31: create_board returns a new board of the matching variant for chess,
\* xiangqi, xiangqi_pyffish and xiangqi_simple in any letter case and raises
\* the unsupported-game-type error (ValueError) for every other text;
\* create_environment returns a ChessEnv for chess and a XiangqiEnv for xiangqi
\* and raises that error for every other text.
C31_FactoryClosedSet ==
    /\ last.op = "create_board" =>
          /\ Names(last.game_type, CHESS) =>
                last.raised = "none" /\ last.val = Some(ChessBoard(CHESS_START))
          /\ Names(last.game_type, XIANGQI) =>
                last.raised = "none" /\ last.val = Some(XiangqiBoard)
          /\ Names(last.game_type, XIANGQI_PYFFISH) =>
                last.raised = "none" /\ last.val = Some(XiangqiPyffishBoard(sf_start_fen))
          /\ Names(last.game_type, XIANGQI_SIMPLE) =>
                last.raised = "none" /\ last.val = Some(SimpleXiangqiBoard)
          /\ ~(\E identifier \in {CHESS, XIANGQI, XIANGQI_PYFFISH, XIANGQI_SIMPLE} :
                  Names(last.game_type, identifier)) =>
                last.raised = "ValueError" /\ last.val = None
    /\ last.op = "create_environment" =>
          /\ Names(last.game_type, CHESS) =>
                last.raised = "none" /\ last.val[1].game = "ChessEnv"
          /\ Names(last.game_type, XIANGQI) =>
                last.raised = "none" /\ last.val[1].game = "XiangqiEnv"
          /\ ~(Names(last.game_type, CHESS) \/ Names(last.game_type, XIANGQI)) =>
                last.raised = "ValueError" /\ last.val = None

\* C31 happens: xiangqi_simple written with capital letters built its board
C31_Witness ==
    /\ last.op = "create_board"
    /\ Names(last.game_type, XIANGQI_SIMPLE)
    /\ last.game_type # XIANGQI_SIMPLE
    /\ last.val = Some(SimpleXiangqiBoard)


(***************************************************************************)
(* play_random_game (main.py).  SpecPlay: env is the ChessEnv the function *)
(* was given; ghost holds its parameters and locals: game counts the games *)
(* begun, at is the place in the code ("for": before a game, "while": at   *)
(* the loop test, "returned", "raised"), raised is the exception that left *)
(* the function.  random.choice is a choice among the listed indices.      *)
(***************************************************************************)
MaxGames == 2

\* one pass of the loop body with the index random.choice returned
play_random_game_body(e, render, action) ==
    LET r == ChessEnv_step(e, action) IN
    IF r.raised # "none" THEN r
    ELSE IF render /\ ChessEnv_action_to_move(r.e, action).raised
    THEN [r EXCEPT !.raised = ChessEnv_action_to_move(r.e, action).err]
    ELSE IF r.terminated /\ r.info[1].result = None
    THEN [r EXCEPT !.raised = "KeyError"]
    ELSE r

InitPlay ==
    /\ env \in {ChessEnv(k) : k \in 0..MaxPly}
    /\ ghost \in {[num_games |-> n, render |-> render, seed |-> seed, game |-> 0,
                   at |-> "for", done |-> FALSE, truncated |-> FALSE, step |-> 0,
                   info |-> None, raised |-> "none"] :
                     n \in 1..MaxGames, render \in BOOLEAN, seed \in SeedInputs}
    /\ last = [op |-> "init", action |-> 0]
    /\ board = None
    /\ oracle = "three_arg"

\* the head of the for loop: reset, render, the locals
PlayBeginGame ==
    /\ ghost.at = "for"
    /\ ghost.game < ghost.num_games
    /\ env' = ChessEnv_reset(env, ghost.seed).e
    /\ ghost' = [ghost EXCEPT !.game = @ + 1, !.at = "while", !.done = FALSE,
                              !.truncated = FALSE, !.step = 0,
                              !.info = ChessEnv_reset(env, ghost.seed).info]
    /\ last' = [op |-> "reset", action |-> 0]
    /\ UNCHANGED <<board, oracle>>

\* the state after a pass of the loop body that did r
Iterated(action, r) ==
    /\ env' = r.e
    /\ ghost' = IF r.raised # "none" /\ r.info = None
                THEN [ghost EXCEPT !.at = "raised", !.raised = r.raised]
                ELSE [ghost EXCEPT !.at = IF r.raised # "none" THEN "raised" ELSE "while",
                                   !.raised = r.raised, !.done = r.terminated,
                                   !.truncated = r.truncated, !.step = @ + 1,
                                   !.info = r.info]
    /\ last' = [op |-> "step", action |-> action]

PlayIterate ==
    /\ ghost.at = "while"
    /\ ~(ghost.done \/ ghost.truncated)
    /\ IF ghost.info[1].legal_moves = <<>>
       THEN /\ ghost' = [ghost EXCEPT !.at = "raised", !.raised = "IndexError"]
            /\ last' = [op |-> "choice", action |-> 0]
            /\ env' = env
       ELSE \E action \in SeqRange(ghost.info[1].legal_moves) :
               /\ Env_in_bound(env, action)
               /\ Iterated(action, play_random_game_body(env, ghost.render, action))
    /\ UNCHANGED <<board, oracle>>

\* the loop test fails: on to the next game
PlayEndGame ==
    /\ ghost.at = "while"
    /\ ghost.done \/ ghost.truncated
    /\ ghost' = [ghost EXCEPT !.at = "for"]
    /\ last' = [op |-> "end", action |-> 0]
    /\ UNCHANGED <<board, oracle, env>>

PlayReturn ==
    /\ ghost.at = "for"
    /\ ghost.game = ghost.num_games
    /\ ghost' = [ghost EXCEPT !.at = "returned"]
    /\ last' = [op |-> "return", action |-> 0]
    /\ UNCHANGED <<board, oracle, env>>

NextPlay == PlayBeginGame \/ PlayIterate \/ PlayEndGame \/ PlayReturn

SpecPlay == InitPlay /\ [][NextPlay]_vars

(***************************************************************************)
(* Claims about play_random_game, checked under SpecPlay.                  *)
(***************************************************************************)

\* C36: in every game of play_random_game on a ChessEnv no exception leaves
\* the loop (random.choice never meets an empty list of legal indices), the
\* loop has made at most max_steps passes when it meets done or truncated, and
\* info holds a result whenever done is true.
C36_RandomPlayTerminates ==
    /\ ghost.at # "raised"
    /\ ghost.step <= env.max_steps
    /\ ghost.done => ghost.info[1].result # None



(***************************************************************************)
(* Quiz and QuizSession (content/quiz.py).  The questions are              *)
(* TrueFalseQuestions answered with booleans.  A session holds a reference *)
(* to its quiz: its operations take the quiz as it is at the call.         *)
(* answers is the dict from question ids to the recorded entries (without  *)
(* the timestamp); end_time is None or set; a score is the fraction        *)
(* num / den of the float the code computes.                               *)
(***************************************************************************)
TrueFalseQuestion(question_id, correct_answer) ==
    [question_id |-> question_id, correct_answer |-> correct_answer]

TrueFalseQuestion_is_correct(question, answer) == answer = question.correct_answer

Quiz(questions) == [questions |-> questions]

Quiz_add_question(quiz, question) ==
    [quiz EXCEPT !.questions = Append(@, question)]

\* [quiz, ret]: the first question with the id is popped
Quiz_remove_question(quiz, question_id) ==
    IF \E i \in 1..Len(quiz.questions) : quiz.questions[i].question_id = question_id
    THEN LET i == CHOOSE i \in 1..Len(quiz.questions) :
                     /\ quiz.questions[i].question_id = question_id
                     /\ \A j \in 1..(i - 1) : quiz.questions[j].question_id # question_id
         IN [quiz |-> [quiz EXCEPT !.questions =
                           SubSeq(@, 1, i - 1) \o SubSeq(@, i + 1, Len(@))],
             ret |-> TRUE]
    ELSE [quiz |-> quiz, ret |-> FALSE]

Quiz_get_question_count(quiz) == Len(quiz.questions)

QuizSession == [answers |-> <<>>, end_time |-> None, score |-> [num |-> 0, den |-> 1]]

\* [session, ret]
QuizSession_answer_question(session, quiz, question_id, answer) ==
    IF \E i \in 1..Len(quiz.questions) : quiz.questions[i].question_id = question_id
    THEN LET question == quiz.questions[CHOOSE i \in 1..Len(quiz.questions) :
                 /\ quiz.questions[i].question_id = question_id
                 /\ \A j \in 1..(i - 1) : quiz.questions[j].question_id # question_id]
         IN [session |-> [session EXCEPT !.answers =
                             [k \in DOMAIN @ \cup {question_id} |->
                                 IF k = question_id
                                 THEN [answer |-> answer,
                                       is_correct |-> TrueFalseQuestion_is_correct(question, answer)]
                                 ELSE @[k]]],
             ret |-> TrueFalseQuestion_is_correct(question, answer)]
    ELSE [session |-> session, ret |-> FALSE]

\* sum(1 for a in self.answers.values() if a['is_correct'])
correct_count(session) ==
    Cardinality({k \in DOMAIN session.answers : session.answers[k].is_correct})

QuizSession_get_results(session, quiz) ==
    [end_time |-> session.end_time,
     score |-> session.score,
     total_questions |-> Quiz_get_question_count(quiz),
     answered_questions |-> Cardinality(DOMAIN session.answers),
     correct_answers |-> correct_count(session)]

\* (correct_count / count) * 100, or 0 for an empty quiz
QuizSession_score(session, quiz) ==
    IF Quiz_get_question_count(quiz) > 0
    THEN [num |-> correct_count(session) * 100, den |-> Quiz_get_question_count(quiz)]
    ELSE [num |-> 0, den |-> 1]

\* [session, ret]
QuizSession_complete(session, quiz) ==
    [session |-> [session EXCEPT !.end_time = Some("now"),
                                 !.score = QuizSession_score(session, quiz)],
     ret |-> QuizSession_get_results(
                 [session EXCEPT !.end_time = Some("now"),
                                 !.score = QuizSession_score(session, quiz)], quiz)]

(***************************************************************************)
(* SpecQuiz: env is a quiz and a session started on it; the callers add    *)
(* and remove questions, answer, complete and read the results in any      *)
(* order.  last is the call and what it returned.                          *)
(***************************************************************************)
MaxQuestions == 3

QuestionIds == {"q1", "q2"}

QuestionInputs ==
    {TrueFalseQuestion(id, correct) : id \in QuestionIds, correct \in BOOLEAN}

QuizCalled(op, question_id, answer, ret, results) ==
    [op |-> op, question_id |-> question_id, answer |-> answer, ret |-> ret,
     results |-> results]

InitQuiz ==
    /\ env \in {[quiz |-> Quiz(questions), session |-> QuizSession] :
                   questions \in {<<>>} \cup {<<q>> : q \in QuestionInputs}}
    /\ last = QuizCalled("init", "", FALSE, FALSE, None)
    /\ board = None
    /\ oracle = "three_arg"
    /\ ghost = None

AddQuestion ==
    /\ Len(env.quiz.questions) < MaxQuestions
    /\ \E question \in QuestionInputs :
          /\ env' = [env EXCEPT !.quiz = Quiz_add_question(@, question)]
          /\ last' = QuizCalled("add_question", question.question_id, FALSE, FALSE, None)
    /\ UNCHANGED <<board, oracle, ghost>>

RemoveQuestion ==
    /\ \E question_id \in QuestionIds :
          /\ env' = [env EXCEPT !.quiz = Quiz_remove_question(@, question_id).quiz]
          /\ last' = QuizCalled("remove_question", question_id, FALSE,
                                Quiz_remove_question(env.quiz, question_id).ret, None)
    /\ UNCHANGED <<board, oracle, ghost>>

AnswerQuestion ==
    /\ \E question_id \in QuestionIds, answer \in BOOLEAN :
          LET r == QuizSession_answer_question(env.session, env.quiz, question_id, answer)
          IN /\ env' = [env EXCEPT !.session = r.session]
             /\ last' = QuizCalled("answer_question", question_id, answer, r.ret, None)
    /\ UNCHANGED <<board, oracle, ghost>>

Complete ==
    /\ env' = [env EXCEPT !.session = QuizSession_complete(@, env.quiz).session]
    /\ last' = QuizCalled("complete", "", FALSE, FALSE,
                          Some(QuizSession_complete(env.session, env.quiz).ret))
    /\ UNCHANGED <<board, oracle, ghost>>

GetResults ==
    /\ last' = QuizCalled("get_results", "", FALSE, FALSE,
                          Some(QuizSession_get_results(env.session, env.quiz)))
    /\ UNCHANGED <<board, oracle, env, ghost>>

NextQuiz ==
    \/ AddQuestion
    \/ RemoveQuestion
    \/ AnswerQuestion
    \/ Complete
    \/ GetResults

SpecQuiz == InitQuiz /\ [][NextQuiz]_vars

(***************************************************************************)
(* Claims about quiz sessions, checked under SpecQuiz.                     *)
(***************************************************************************)

\* the ids of the questions of a quiz
IdsOf(quiz) == {quiz.questions[i].question_id : i \in 1..Len(quiz.questions)}

\* the results a session reports: no more correct answers than questions, and
\* a score from 0 to 100
ResultsInRange(results) ==
    /\ results.correct_answers <= results.total_questions
    /\ 0 <= results.score.num
    /\ results.score.num <= 100 * results.score.den

\* an answer_question call recorded nothing for an id that is not in the quiz,
\* and for an id of the quiz left exactly one entry, the new answer
AnswerRecorded ==
    last'.op = "answer_question" =>
        IF last'.question_id \in IdsOf(env.quiz)
        THEN /\ DOMAIN env'.session.answers
                  = DOMAIN env.session.answers \cup {last'.question_id}
             /\ env'.session.answers[last'.question_id].answer = last'.answer
             /\ \A k \in DOMAIN env.session.answers \ {last'.question_id} :
                   env'.session.answers[k] = env.session.answers[k]
        ELSE env'.session = env.session /\ ~last'.ret

\* C37: whatever the order of answer_question, add_question, remove_question
\* and complete calls, the results a session reports have correct_answers <=
\* total_questions and a score in [0, 100]; an answer to an id that is not in
\* the quiz is not recorded, and a second answer to a question replaces the
\* first.
C37_QuizResultsConsistent ==
    /\ [](last.results # None => ResultsInRange(last.results[1]))
    /\ [][AnswerRecorded]_vars



(***************************************************************************)
(* MatchViewer (ui_match_viewer.py).  The viewer's record holds its Tk      *)
(* variables (game, require_mate), its fields, and Tk's timers: pending is  *)
(* the set of the ids of the after() callbacks that are scheduled and have  *)
(* neither fired nor been cancelled, after_count the number of ids issued   *)
(* (Tk never issues an id twice).  Callbacks run one at a time on the Tk    *)
(* event loop.  Drawing and the status text are output.                     *)
(***************************************************************************)
MatchViewer__init_game(v) ==
    [v EXCEPT !.board = IF v.game = "chess" THEN ChessBoard(CHESS_START)
                        ELSE XiangqiPyffishBoard(sf_start_fen),
              !.move_count = 0, !.last_move = None]

MatchViewer ==
    MatchViewer__init_game(
        [game |-> "chess", require_mate |-> TRUE, running |-> FALSE, after_id |-> None,
         move_count |-> 0, last_move |-> None, board |-> None,
         pending |-> {}, after_count |-> 0])

\* stop that leaves the scheduled callback scheduled
MatchViewer_stop_keeps_timer(v) == [v EXCEPT !.running = FALSE, !.after_id = None]

\* after_cancel of an id that has fired or was cancelled does nothing
MatchViewer_stop(v) ==
    [v EXCEPT !.running = FALSE,
              !.pending = IF v.after_id # None THEN @ \ {v.after_id[1]} ELSE @,
              !.after_id = None]

MatchViewer__schedule_next(v) ==
    IF ~v.running THEN v
    ELSE [v EXCEPT !.after_count = @ + 1,
                   !.pending = @ \cup {v.after_count + 1},
                   !.after_id = Some(v.after_count + 1)]

MatchViewer_start(v) == MatchViewer__schedule_next([v EXCEPT !.running = TRUE])

MatchViewer_toggle_run(v) ==
    IF v.running THEN MatchViewer_stop(v) ELSE MatchViewer_start(v)

MatchViewer_reset_game(v) == MatchViewer__init_game(MatchViewer_stop(v))

\* what a callback did: the viewer after it, the exception that left it, and
\* whether it applied a move
Stepped_once(v, raised, moved) == [v |-> v, raised |-> raised, moved |-> moved]

\* _step_once on a finished game; b is the board after the is_mate test
MatchViewer__step_once_over(v, b, is_mate) ==
    IF v.require_mate /\ ~is_mate
    THEN Stepped_once(MatchViewer__schedule_next(
                          MatchViewer__init_game([v EXCEPT !.board = b])), "none", FALSE)
    ELSE Stepped_once(MatchViewer_stop([v EXCEPT !.board = b]), "none", FALSE)

\* _step_once from brd.apply_move(mv) on; r is what apply_move did
MatchViewer__step_once_apply(v, mv, r) ==
    IF r.raised # "none" THEN Stepped_once([v EXCEPT !.board = r.b], r.raised, FALSE)
    ELSE Stepped_once(MatchViewer__schedule_next(
                          [v EXCEPT !.board = r.b, !.last_move = Some(mv),
                                    !.move_count = @ + 1]), "none", TRUE)

\* _step_once from legal = brd.get_legal_moves() on; random.choice takes the
\* move at place choice, counted round the list
MatchViewer__step_once_move(v, legal, choice, mode, write_ok) ==
    IF legal.raised THEN Stepped_once(v, "OracleError", FALSE)
    ELSE IF Len(legal.val) = 0 THEN Stepped_once(MatchViewer_stop(v), "none", FALSE)
    ELSE IF v.game = "chess"
    THEN MatchViewer__step_once_apply(v, legal.val[(choice % Len(legal.val)) + 1],
             ChessBoard_apply_move(v.board, legal.val[(choice % Len(legal.val)) + 1]))
    ELSE MatchViewer__step_once_apply(v, legal.val[(choice % Len(legal.val)) + 1],
             XiangqiPyffishBoard_apply_move(v.board,
                 legal.val[(choice % Len(legal.val)) + 1], mode, write_ok))

MatchViewer__step_once(v, choice, mode, write_ok) ==
    IF v.game = "chess"
    THEN (IF ChessBoard_is_game_over(v.board)
          THEN MatchViewer__step_once_over(v, v.board,
                   chess_outcome(v.board.board)[1].termination = "CHECKMATE")
          ELSE MatchViewer__step_once_move(v, Ok(ChessBoard_get_legal_moves(v.board, None)),
                                           choice, mode, write_ok))
    ELSE (IF XiangqiPyffishBoard_is_game_over(v.board, mode)
          THEN MatchViewer__step_once_over(v,
                   XiangqiPyffishBoard_get_result(v.board, mode).b,
                   XiangqiPyffishBoard_get_result(v.board, mode).ret[1].termination
                       = Some("checkmate"))
          ELSE MatchViewer__step_once_move(v,
                   XiangqiPyffishBoard_get_legal_moves(v.board, None, mode),
                   choice, mode, write_ok))

(***************************************************************************)
(* SpecViewer: env is the viewer.  The user presses Start/Pause and Reset,  *)
(* selects a game and ticks Require Checkmate; a scheduled callback fires   *)
(* whenever Tk's loop gets to it.  At most MaxTimers callbacks are ever     *)
(* scheduled.  last is the event and what it did.                           *)
(***************************************************************************)
MaxTimers == 18

ViewerDid(op, r) == [op |-> op, raised |-> r.raised, moved |-> r.moved]

\* the callback is in bound when random.choice takes a move the model plays
Viewer_in_bound(v, choice, mode) ==
    IF v.game = "chess"
    THEN IF ChessBoard_is_game_over(v.board) THEN TRUE
         ELSE IF Len(chess_legal_moves(v.board.board)) = 0 THEN TRUE
         ELSE chess_in_bound(v.board.board,
                  chess_legal_moves(v.board.board)
                      [(choice % Len(chess_legal_moves(v.board.board))) + 1])
    ELSE IF XiangqiPyffishBoard_get_legal_moves(v.board, None, mode).raised THEN TRUE
         ELSE IF Len(XiangqiPyffishBoard_get_legal_moves(v.board, None, mode).val) = 0
         THEN TRUE
         ELSE sf_in_bound(v.board.current_fen,
                  XiangqiPyffishBoard_get_legal_moves(v.board, None, mode).val
                      [(choice
                        % Len(XiangqiPyffishBoard_get_legal_moves(v.board, None, mode).val))
                       + 1])

InitViewer ==
    /\ env = MatchViewer
    /\ oracle \in OracleModes
    /\ last = ViewerDid("init", Stepped_once(env, "none", FALSE))
    /\ board = None
    /\ ghost = None

ToggleRun ==
    /\ env.running \/ env.after_count < MaxTimers
    /\ env' = MatchViewer_toggle_run(env)
    /\ last' = ViewerDid("toggle_run", Stepped_once(env', "none", FALSE))
    /\ UNCHANGED <<board, oracle, ghost>>

ResetGame ==
    /\ env' = MatchViewer_reset_game(env)
    /\ last' = ViewerDid("reset_game", Stepped_once(env', "none", FALSE))
    /\ UNCHANGED <<board, oracle, ghost>>

\* <<ComboboxSelected>>: the variable is set, then reset_game runs
SelectGame ==
    /\ \E game \in {"chess", "xiangqi"} :
          env' = MatchViewer_reset_game([env EXCEPT !.game = game])
    /\ last' = ViewerDid("select_game", Stepped_once(env', "none", FALSE))
    /\ UNCHANGED <<board, oracle, ghost>>

TickRequireMate ==
    /\ env' = [env EXCEPT !.require_mate = ~@]
    /\ last' = ViewerDid("require_mate", Stepped_once(env', "none", FALSE))
    /\ UNCHANGED <<board, oracle, ghost>>

\* a scheduled callback fires: Tk takes it off its list and calls _step_once
TimerFires ==
    /\ env.after_count < MaxTimers
    /\ \E id \in env.pending, choice \in 0..MaxAction, write_ok \in BOOLEAN :
          LET r == MatchViewer__step_once([env EXCEPT !.pending = @ \ {id}],
                                          choice, oracle, write_ok)
          IN /\ Viewer_in_bound(env, choice, oracle)
             /\ env' = r.v
             /\ last' = ViewerDid("_step_once", r)
    /\ UNCHANGED <<board, oracle, ghost>>

NextViewer ==
    \/ ToggleRun
    \/ ResetGame
    \/ SelectGame
    \/ TickRequireMate
    \/ TimerFires

SpecViewer == InitViewer /\ [][NextViewer]_vars

(***************************************************************************)
(* Claims about the viewer, checked under SpecViewer.                      *)
(***************************************************************************)

\* C38: under any interleaving of toggle_run, reset_game and timer firings at
\* most one _step_once callback is scheduled at any time, none is scheduled
\* while running is False, and a callback that applies a move to the board
\* starts with running True.
C38_OneTimerAndNoMoveWhileStopped ==
    /\ [](Cardinality(env.pending) <= 1 /\ (~env.running => env.pending = {}))
    /\ [][(last'.op = "_step_once" /\ last'.moved) => env.running]_vars

\* C38 happens: of three callbacks scheduled one was cancelled by a stop or a
\* reset, one fired and applied a move, and one is scheduled
C38_Witness ==
    /\ last.op = "_step_once"
    /\ last.moved
    /\ env.move_count = 1
    /\ env.after_count = 3
    /\ env.pending = {3}
    /\ env.running


=============================================================================
